---- MODULE Spec2Model ----
(***************************************************************************)
(* A model of AMI, a real-time software instrument: the render graph and   *)
(* its command protocol (render/renderer.rs, render/node/oxi_synth.rs),    *)
(* the audio callback / renderer hand-off (audio/output.rs, main.rs) and   *)
(* the beat scheduler with its step-sequencer voices                       *)
(* (control/drum_machine.rs, control/voices.rs).                           *)
(*                                                                         *)
(* Optional values are sequences: <<>> is None and <<x>> is Some(x).       *)
(***************************************************************************)
EXTENDS Integers, Sequences, FiniteSets, TLC

VARIABLES
    \* ---- render graph (Renderer and its nodes) ----
    nodes,          \* Renderer.nodes: Vec<(String, RenderPtr)>
    req_rx,         \* the request queue: <<request, responder>> pairs
    nreq,           \* number of response channels created so far
    responses,      \* per responder: the values sent on its oneshot channel
    closed,         \* responders dropped without a value being sent
    updates,        \* everything handed to clients.broadcast, in order
    jobs,           \* the background load threads ever spawned
    last,           \* the request process_request handled last, and its answer
    \* ---- audio hand-off (output callback and run_renderer) ----
    cb_pc,          \* where the output callback is
    curr_buf_size,  \* the callback's local: data.len() / channels
    frame,          \* frames the callback's drain loop has filled
    required_num_samples,   \* the shared atomic counter
    lbuf_q,         \* occupied length of the left queue
    rbuf_q,         \* occupied length of the right queue
    rn_pc,          \* where run_renderer's loop is
    rn_size,        \* run_renderer's local curr_buf_size
    renders,        \* block sizes rendered since the callback was invoked
    ncallbacks,     \* callback invocations so far
    \* ---- beat scheduler (DrumMachine) ----
    overflow_checks,    \* build profile: are integer overflows checked (debug)?
    dm,             \* the DrumMachine's fields
    dm_req_rx,      \* its request queue
    dm_nreq,        \* requests submitted so far
    now,            \* time since start, in twelfths of a second
    sent,           \* control messages the last tick sent
    fired,          \* the (beat, div, rhythm) of the last tick's beat_tick, if any
    results,        \* the answers of the requests the last tick processed
    snaps,          \* (rhythm, voices) before each of the latest SetRhythm requests
    \* ---- MIDI path (port callback, channels, receive_midi_message) ----
    mnodes,         \* the graph's nodes, as receive_midi_message sees them
    midi_rx,        \* the renderer's receiver of the MIDI broadcast channel
    dm_ctr_rx,      \* the control-message queue from the sequencer
    midi_in,        \* the byte buffer the port callback was last called with
    midi_sent,      \* every message sent on the MIDI channel, in order
    delivered,      \* <<k, i>>: message number k was handed to node i, in order
    nmidi,          \* calls of the port callback so far
    nhits,          \* sequencer hits so far
    hits,           \* per hit: the messages of produce_noise and how many are sent
    heard,          \* the calls of receive_midi_message update made, in order
    dead,           \* the tasks that have died of a panic
    \* ---- one call of Renderer::render (render/mod.rs) ----
    mix,            \* what the output block holds: one entry per render_additive
    cycle,          \* the calls the latest Renderer::render made, in order
    \* ---- the scheduler's tick loop against the clock (main.rs) ----
    ticked_at,      \* the time of the latest call of tick, if any
    epoch,          \* the time of the latest reset and the beat-ticks since
    \* ---- one synth node under MIDI messages (midi_filter.rs, oxi_synth.rs) ----
    unit,           \* the node; its engine holds the events of the latest message
    probe           \* the latest message handed to it and what does_pass said

graphVars == <<nodes, req_rx, nreq, responses, closed, updates, jobs, last>>

audioVars == <<cb_pc, curr_buf_size, frame, required_num_samples, lbuf_q, rbuf_q,
               rn_pc, rn_size, renders, ncallbacks>>

drumVars == <<overflow_checks, dm, dm_req_rx, dm_nreq, now, sent, fired, results, snaps>>

midiVars == <<mnodes, midi_rx, dm_ctr_rx, midi_in, midi_sent, delivered, nmidi,
              nhits, hits, heard, dead>>

cycleVars == <<mix, cycle>>

beatVars == <<ticked_at, epoch>>

unitVars == <<unit, probe>>

vars == <<graphVars, audioVars, drumVars, midiVars, cycleVars, beatVars, unitVars>>

None == <<>>
Some(x) == <<x>>
IsSome(o) == o /= <<>>
Unwrap(o) == o[1]

\* ------------------------------------------------------------------------
\* Bounds of the model
\* ------------------------------------------------------------------------
MaxReqs == 4        \* requests submitted in one run
MaxId == 2          \* node indices a request may name: 0..MaxId
QueueCap == 2       \* requests waiting in the queue at once
BufferSize == 2     \* capacity of each sample queue (buffer_size, scaled down)
MaxCallbacks == 3   \* output callback invocations in one run
MaxDmReqs == 4      \* scheduler requests submitted in one run
DmQueueCap == 1     \* scheduler requests waiting in the queue at once
MaxTime == 3        \* the clock stops here
MaxMidiMsgs == 2    \* port messages and sequencer hits in one run
MidiChanCap == 1    \* slots of the MIDI broadcast channel (2048, scaled down)
MaxMidiNodes == 2   \* nodes in the graph the MIDI path feeds
MaxCycleReqs == 3   \* requests submitted in one run of the renderer cycle
MaxBeatTime == 12   \* the tick loop is followed for one second (twelfths)
SampleGap == 2      \* longest sleep between two calls of tick (10 ms, scaled)
MaxHits == 1        \* sequencer hits in one run

\* ------------------------------------------------------------------------
\* Inputs
\* ------------------------------------------------------------------------
RegisteredKinds == {"OxiSynth", "FluidliteSynth"}
RequestedKinds == RegisteredKinds \cup {"X"}

DEFAULT_NAME == "Oxi Synth"

\* Paths a LoadFile may carry: one that loads, one that translates but cannot
\* be opened, one outside every virtual path.
GoodPath == "sf/a.sf2"
MissingPath == "sf/missing.sf2"
UntranslatablePath == "elsewhere/c.sf2"
Paths == {GoodPath, MissingPath, UntranslatablePath}

\* Two more resources that load: one whose presets start at bank 1, one
\* without any preset.
OtherFont == "sf/b.sf2"
EmptyFont == "sf/empty.sf2"
Fonts == {GoodPath, OtherFont, EmptyFont}

translate(path) == IF path \in Fonts \cup {MissingPath} THEN Some(path) ELSE None

FileLoads(path) == path \in Fonts

\* The presets of the loadable resource, as <<bank, program>> pairs.
PresetsOf(path) ==
    CASE path = GoodPath -> {<<0, 0>>, <<0, 1>>}
      [] path = OtherFont -> {<<1, 5>>, <<1, 7>>, <<2, 0>>}
      [] OTHER -> {}

has_preset(map, bank, preset) == <<bank, preset>> \in map

first_available_preset(map) ==
    IF map = {} THEN None
    ELSE LET b == CHOOSE x \in {p[1] : p \in map} : \A y \in {p[1] : p \in map} : x <= y
             ps == {p[2] : p \in {q \in map : q[1] = b}}
             pr == CHOOSE x \in ps : \A y \in ps : x <= y
         IN  Some(<<b, pr>>)

NodeRequestKinds ==
    {[kind |-> "SetName", arg |-> "n"],
     [kind |-> "SetEnabled", arg |-> FALSE],
     [kind |-> "SetGain", arg |-> 2],
     [kind |-> "SetTransposition", arg |-> 1],
     [kind |-> "SetVelocityMapping", arg |-> "Linear"],
     [kind |-> "SetIgnoreGlobalTransposition", arg |-> TRUE],
     [kind |-> "SetBankAndPreset", arg |-> <<1, 0>>],
     [kind |-> "UpdateMidiFilter", arg |-> FALSE],
     [kind |-> "AddDrumMachineVoice", arg |-> 0]}
    \cup {[kind |-> "LoadFile", arg |-> p] : p \in Paths}

Ids == 0..MaxId

Requests ==
    {[kind |-> "NodeRequest", id |-> i, req |-> k] : i \in Ids, k \in NodeRequestKinds}
    \cup {[kind |-> "AddNode", node_kind |-> k] : k \in RequestedKinds}
    \cup {[kind |-> "RemoveNode", id |-> i] : i \in Ids}
    \cup {[kind |-> "CloneNode", id |-> i] : i \in Ids}
    \cup {[kind |-> "MoveNode", id |-> i, new_id |-> j] : i \in Ids, j \in Ids}

\* ------------------------------------------------------------------------
\* Renderer fields fixed after start-up (main.rs)
\* ------------------------------------------------------------------------
SampleRate == 44100
GlobalTransposition == 0

\* ------------------------------------------------------------------------
\* The synth node (render/node/oxi_synth.rs)
\* ------------------------------------------------------------------------
VirtualPathsOfRenderer == "vp"

DefaultNode ==
    [name |-> DEFAULT_NAME, enabled |-> TRUE, midi_filter |-> [enabled |-> TRUE],
     synth |-> None, last_file |-> None, last_virtual_paths |-> None,
     last_sample_rate |-> None, last_bank |-> None, last_preset |-> None,
     preset_map |-> None, gain |-> 1, transposition |-> 0,
     global_transposition |-> 0, velocity_mapping |-> "Identity",
     ignore_global_transposition |-> FALSE,
     sf_load_handle |-> None, sf_load_res_cb |-> None, json_updates |-> <<>>]

\* json_updates.push for each field, in order (the values are left out).
Push(n, fields) == [n EXCEPT !.json_updates = @ \o fields]

\* What a node's process_request hands back: the node afterwards, the value
\* its callback was called with (None: the callback was stored), whether a
\* load thread was spawned, and the callback and join handle it overwrote.
Reply(n, r) ==
    [node |-> n, resp |-> Some(r), spawned |-> FALSE, dropped |-> None, detached |-> None]

set_name(n, name) == Reply(Push([n EXCEPT !.name = name], <<"name">>), "Ok")

set_enabled(n, flag) == Reply(Push([n EXCEPT !.enabled = flag], <<"enabled">>), "Ok")

set_gain(n, gain) == Reply(Push([n EXCEPT !.gain = gain], <<"gain">>), "Ok")

set_transposition(n, tr) ==
    Reply(Push([n EXCEPT !.transposition = tr], <<"transposition">>), "Ok")

set_velocity_mapping(n, m) ==
    Reply(Push([n EXCEPT !.velocity_mapping = m], <<"velocity_mapping">>), "Ok")

set_ignore_global_transposition(n, flag) ==
    Reply(Push([n EXCEPT !.ignore_global_transposition = flag],
               <<"ignore_global_transposition">>), "Ok")

\* The engine a load thread builds always holds one font, so
\* synth.font_bank().count() != 0 whenever a synth is present.
set_preset(n, bank, preset) ==
    LET n1 == [n EXCEPT !.last_bank = Some(bank), !.last_preset = Some(preset)]
    IN  IF IsSome(n.synth) THEN Reply(Push(n1, <<"bank", "preset">>), "Ok")
        ELSE Reply(n1, "Failed")

update_midi_filter(n, flag) ==
    Reply(Push([n EXCEPT !.midi_filter.enabled = flag], <<"midi_filter">>), "Ok")

CanSpawn(n) ==
    /\ IsSome(n.last_file)
    /\ IsSome(n.last_virtual_paths)
    /\ IsSome(translate(Unwrap(n.last_file)))

\* The thread load_file_non_blocking spawns, with what its closure captured.
SpawnedJob(n) ==
    [file |-> Unwrap(translate(Unwrap(n.last_file))),
     last_bank |-> n.last_bank, last_preset |-> n.last_preset,
     status |-> "running", joined |-> FALSE, detached |-> FALSE]

load_file_non_blocking(n, jid) ==
    IF CanSpawn(n) THEN [ok |-> TRUE, node |-> [n EXCEPT !.sf_load_handle = Some(jid)]]
    ELSE [ok |-> FALSE, node |-> n]

load_file(n, path, cb, jid) ==
    LET n1 == [n EXCEPT !.last_file = Some(path)]
        r == load_file_non_blocking(n1, jid)
    IN  IF r.ok
        THEN [node |-> [r.node EXCEPT !.sf_load_res_cb = Some(cb)],
              resp |-> None, spawned |-> TRUE,
              dropped |-> n.sf_load_res_cb, detached |-> n.sf_load_handle]
        ELSE Reply(n1, "Failed")

NodeProcessRequest(n, kind, cb, jid) ==
    CASE kind.kind = "SetName" -> set_name(n, kind.arg)
      [] kind.kind = "SetEnabled" -> set_enabled(n, kind.arg)
      [] kind.kind = "LoadFile" -> load_file(n, kind.arg, cb, jid)
      [] kind.kind = "SetGain" -> set_gain(n, kind.arg)
      [] kind.kind = "SetTransposition" -> set_transposition(n, kind.arg)
      [] kind.kind = "SetVelocityMapping" -> set_velocity_mapping(n, kind.arg)
      [] kind.kind = "SetIgnoreGlobalTransposition" ->
            set_ignore_global_transposition(n, kind.arg)
      [] kind.kind = "SetBankAndPreset" -> set_preset(n, kind.arg[1], kind.arg[2])
      [] kind.kind = "UpdateMidiFilter" -> update_midi_filter(n, kind.arg)
      [] OTHER -> Reply(n, "Denied")

\* The load thread selecting the first available preset whatever was
\* selected before.
JobPreset_always_first(job) ==
    LET first == first_available_preset(PresetsOf(job.file))
    IN  IF IsSome(first) THEN <<Some(Unwrap(first)[1]), Some(Unwrap(first)[2])>>
        ELSE <<None, None>>

\* The bank and program the load thread settles on (oxi_synth.rs 357-370).
JobPreset(job) ==
    LET map == PresetsOf(job.file)
        first == first_available_preset(map)
    IN  IF IsSome(job.last_bank) /\ IsSome(job.last_preset)
        THEN IF has_preset(map, Unwrap(job.last_bank), Unwrap(job.last_preset))
             THEN <<job.last_bank, job.last_preset>>
             ELSE IF IsSome(first)
                  THEN <<Some(Unwrap(first)[1]), Some(Unwrap(first)[2])>>
                  ELSE <<None, None>>
        ELSE IF IsSome(first)
             THEN <<Some(Unwrap(first)[1]), Some(Unwrap(first)[2])>>
             ELSE <<job.last_bank, job.last_preset>>

handle_sf_load_success(n, jid, job) ==
    Push([n EXCEPT !.synth = Some([job |-> jid, file |-> job.file]),
                   !.preset_map = Some(PresetsOf(job.file)),
                   !.last_bank = JobPreset(job)[1],
                   !.last_preset = JobPreset(job)[2],
                   !.sf_load_res_cb = None],
         <<"loaded_file", "preset_map", "bank", "preset">>)

\* sf_load_finished taking the handle whether or not its thread has ended.
sf_load_finished_any(n, js) == IsSome(n.sf_load_handle)

sf_load_finished(n, js) ==
    IsSome(n.sf_load_handle) /\ js[Unwrap(n.sf_load_handle)].status /= "running"

\* handle_sf_load dropping the stored callback when the thread has failed.
handle_sf_load_silent(n, js) ==
    IF sf_load_finished(n, js)
    THEN LET jid == Unwrap(n.sf_load_handle)
             n1 == [n EXCEPT !.sf_load_handle = None]
         IN  IF js[jid].status = "ok"
             THEN [node |-> handle_sf_load_success(n1, jid, js[jid]),
                   called |-> n.sf_load_res_cb, with |-> "Ok"]
             ELSE [node |-> [n1 EXCEPT !.sf_load_res_cb = None],
                   called |-> None, with |-> "Failed"]
    ELSE [node |-> n, called |-> None, with |-> "Ok"]

\* handle_sf_load: the node afterwards and the value its stored callback gets.
handle_sf_load(n, js) ==
    IF sf_load_finished(n, js)
    THEN LET jid == Unwrap(n.sf_load_handle)
             n1 == [n EXCEPT !.sf_load_handle = None]
         IN  IF js[jid].status = "ok"
             THEN [node |-> handle_sf_load_success(n1, jid, js[jid]),
                   called |-> n.sf_load_res_cb, with |-> "Ok"]
             ELSE [node |-> [n1 EXCEPT !.sf_load_res_cb = None],
                   called |-> n.sf_load_res_cb, with |-> "Failed"]
    ELSE [node |-> n, called |-> None, with |-> "Ok"]

\* A copy that keeps the engine and the preset map of the original.
CloneOf_shares_engine(n, jid) ==
    LET res == [n EXCEPT !.sf_load_handle = None, !.sf_load_res_cb = None,
                         !.json_updates = <<>>]
    IN  load_file_non_blocking(res, jid)

\* impl Clone for Node: the copy, before the renderer adds it to the graph.
CloneOf(n, jid) ==
    LET res == [n EXCEPT !.synth = None, !.preset_map = None,
                         !.sf_load_handle = None, !.sf_load_res_cb = None,
                         !.json_updates = <<>>]
    IN  load_file_non_blocking(res, jid)

serialize(n) ==
    [name |-> n.name, enabled |-> n.enabled, midi_filter |-> n.midi_filter,
     gain |-> n.gain, transposition |-> n.transposition,
     global_transposition |-> n.global_transposition,
     velocity_mapping |-> n.velocity_mapping,
     ignore_global_transposition |-> n.ignore_global_transposition,
     loaded_file |-> n.last_file, preset_map |-> n.preset_map,
     bank |-> n.last_bank, preset |-> n.last_preset]

\* ------------------------------------------------------------------------
\* The renderer (render/renderer.rs)
\* ------------------------------------------------------------------------
Resp(kind) == [kind |-> kind]
NodeResponse(id, kind) == [kind |-> "NodeResponse", id |-> id, node |-> kind]

respond(rs, responder, response_kind) ==
    [rs EXCEPT ![responder] = Append(@, response_kind)]

\* add_node without the set_sample_rate call.
add_node_no_sample_rate(entries, kind, n) ==
    Append(entries,
           [kind |-> kind,
            node |-> [n EXCEPT !.last_virtual_paths = Some(VirtualPathsOfRenderer),
                               !.global_transposition = GlobalTransposition]])

add_node(entries, kind, n) ==
    Append(entries,
           [kind |-> kind,
            node |-> [n EXCEPT !.last_sample_rate = Some(SampleRate),
                               !.last_virtual_paths = Some(VirtualPathsOfRenderer),
                               !.global_transposition = GlobalTransposition]])

RemoveAt(s, i) == SubSeq(s, 1, i - 1) \o SubSeq(s, i + 1, Len(s))
InsertAt(s, i, x) == SubSeq(s, 1, i - 1) \o <<x>> \o SubSeq(s, i, Len(s))

\* A client sends a request with a fresh response channel (main.rs,
\* send_renderer_request).
Submit(req) ==
    /\ nreq < MaxReqs
    /\ Len(req_rx) < QueueCap
    /\ nreq' = nreq + 1
    /\ req_rx' = Append(req_rx, [req |-> req, responder |-> nreq + 1])
    /\ UNCHANGED <<nodes, responses, closed, updates, jobs, last>>
    /\ UNCHANGED <<audioVars, drumVars, midiVars, cycleVars, beatVars, unitVars>>

Taken(kind) ==
    /\ req_rx /= <<>>
    /\ Head(req_rx).req.kind = kind
    /\ req_rx' = Tail(req_rx)
    /\ last' = Some(Head(req_rx))
    /\ nreq' = nreq
    /\ UNCHANGED <<audioVars, drumVars, midiVars, cycleVars, beatVars, unitVars>>

process_node_request ==
    /\ Taken("NodeRequest")
    /\ LET responder == Head(req_rx).responder
           id == Head(req_rx).req.id
           kind == Head(req_rx).req.req
       IN  IF id >= Len(nodes)
           THEN /\ responses' = respond(responses, responder, Resp("InvalidId"))
                /\ UNCHANGED <<nodes, closed, updates, jobs>>
           ELSE LET r == NodeProcessRequest(nodes[id + 1].node, kind,
                                            [responder |-> responder, id |-> id],
                                            Len(jobs) + 1)
                    detached == IF IsSome(r.detached)
                                THEN [jobs EXCEPT ![Unwrap(r.detached)].detached = TRUE]
                                ELSE jobs
                IN  /\ nodes' = [nodes EXCEPT ![id + 1].node = r.node]
                    /\ responses' = IF IsSome(r.resp)
                                    THEN respond(responses, responder,
                                                 NodeResponse(id, Unwrap(r.resp)))
                                    ELSE responses
                    /\ closed' = IF IsSome(r.dropped)
                                 THEN closed \cup {Unwrap(r.dropped).responder}
                                 ELSE closed
                    /\ jobs' = IF r.spawned
                               THEN Append(detached, SpawnedJob(r.node))
                               ELSE detached
                    /\ UNCHANGED updates

\* process_add_node without the registry lookup.
process_add_node_any_kind ==
    /\ Taken("AddNode")
    /\ nodes' = add_node(nodes, Head(req_rx).req.node_kind, DefaultNode)
    /\ responses' = respond(responses, Head(req_rx).responder, Resp("Ok"))
    /\ updates' = Append(updates,
                         [kind |-> "AddNode", id |-> Len(nodes') - 1,
                          node_kind |-> Head(req_rx).req.node_kind,
                          instance |-> serialize(DefaultNode)])
    /\ UNCHANGED <<closed, jobs>>

process_add_node ==
    /\ Taken("AddNode")
    /\ LET responder == Head(req_rx).responder
           kind == Head(req_rx).req.node_kind
       IN  IF kind \notin RegisteredKinds
           THEN /\ responses' = respond(responses, responder, Resp("InvalidNodeKind"))
                /\ UNCHANGED <<nodes, closed, updates, jobs>>
           ELSE /\ nodes' = add_node(nodes, kind, DefaultNode)
                /\ responses' = respond(responses, responder, Resp("Ok"))
                /\ updates' = Append(updates,
                                     [kind |-> "AddNode", id |-> Len(nodes') - 1,
                                      node_kind |-> kind,
                                      instance |-> serialize(DefaultNode)])
                /\ UNCHANGED <<closed, jobs>>

\* As process_remove_node, but taking the node off the end of the list.
process_remove_node_pop ==
    /\ Taken("RemoveNode")
    /\ LET responder == Head(req_rx).responder
           id == Head(req_rx).req.id
       IN  IF id >= Len(nodes)
           THEN /\ responses' = respond(responses, responder, Resp("InvalidId"))
                /\ UNCHANGED <<nodes, closed, updates, jobs>>
           ELSE LET n == nodes[Len(nodes)].node
                IN  /\ nodes' = RemoveAt(nodes, Len(nodes))
                    /\ closed' = IF IsSome(n.sf_load_res_cb)
                                 THEN closed \cup {Unwrap(n.sf_load_res_cb).responder}
                                 ELSE closed
                    /\ jobs' = IF IsSome(n.sf_load_handle)
                               THEN [jobs EXCEPT ![Unwrap(n.sf_load_handle)].detached = TRUE]
                               ELSE jobs
                    /\ responses' = respond(responses, responder, Resp("Ok"))
                    /\ updates' = Append(updates, [kind |-> "RemoveNode", id |-> id])

\* Dropping a node drops the callback it holds and detaches its load thread.
process_remove_node ==
    /\ Taken("RemoveNode")
    /\ LET responder == Head(req_rx).responder
           id == Head(req_rx).req.id
       IN  IF id >= Len(nodes)
           THEN /\ responses' = respond(responses, responder, Resp("InvalidId"))
                /\ UNCHANGED <<nodes, closed, updates, jobs>>
           ELSE LET n == nodes[id + 1].node
                IN  /\ nodes' = RemoveAt(nodes, id + 1)
                    /\ closed' = IF IsSome(n.sf_load_res_cb)
                                 THEN closed \cup {Unwrap(n.sf_load_res_cb).responder}
                                 ELSE closed
                    /\ jobs' = IF IsSome(n.sf_load_handle)
                               THEN [jobs EXCEPT ![Unwrap(n.sf_load_handle)].detached = TRUE]
                               ELSE jobs
                    /\ responses' = respond(responses, responder, Resp("Ok"))
                    /\ updates' = Append(updates, [kind |-> "RemoveNode", id |-> id])

process_clone_node ==
    /\ Taken("CloneNode")
    /\ LET responder == Head(req_rx).responder
           id == Head(req_rx).req.id
       IN  IF id >= Len(nodes)
           THEN /\ responses' = respond(responses, responder, Resp("InvalidId"))
                /\ UNCHANGED <<nodes, closed, updates, jobs>>
           ELSE LET c == CloneOf(nodes[id + 1].node, Len(jobs) + 1)
                IN  /\ nodes' = add_node(nodes, nodes[id + 1].kind, c.node)
                    /\ jobs' = IF c.ok THEN Append(jobs, SpawnedJob(c.node)) ELSE jobs
                    /\ responses' = respond(responses, responder, Resp("Ok"))
                    /\ updates' = Append(updates, [kind |-> "CloneNode", id |-> id])
                    /\ UNCHANGED closed

\* process_move_node testing only the source index, the target clamped.
process_move_node_clamps ==
    /\ Taken("MoveNode")
    /\ LET responder == Head(req_rx).responder
           id == Head(req_rx).req.id
           new_id == Head(req_rx).req.new_id
       IN  IF id >= Len(nodes)
           THEN /\ responses' = respond(responses, responder, Resp("InvalidId"))
                /\ UNCHANGED <<nodes, closed, updates, jobs>>
           ELSE /\ nodes' = IF new_id >= Len(nodes)
                            THEN Append(RemoveAt(nodes, id + 1), nodes[id + 1])
                            ELSE InsertAt(RemoveAt(nodes, id + 1), new_id + 1,
                                          nodes[id + 1])
                /\ responses' = respond(responses, responder, Resp("Ok"))
                /\ updates' = Append(updates,
                                     [kind |-> "MoveNode", id |-> id, new_id |-> new_id])
                /\ UNCHANGED <<closed, jobs>>

process_move_node ==
    /\ Taken("MoveNode")
    /\ LET responder == Head(req_rx).responder
           id == Head(req_rx).req.id
           new_id == Head(req_rx).req.new_id
       IN  IF id >= Len(nodes) \/ new_id >= Len(nodes)
           THEN /\ responses' = respond(responses, responder, Resp("InvalidId"))
                /\ UNCHANGED <<nodes, closed, updates, jobs>>
           ELSE /\ nodes' = InsertAt(RemoveAt(nodes, id + 1), new_id + 1, nodes[id + 1])
                /\ responses' = respond(responses, responder, Resp("Ok"))
                /\ updates' = Append(updates,
                                     [kind |-> "MoveNode", id |-> id, new_id |-> new_id])
                /\ UNCHANGED <<closed, jobs>>

\* render_audio: every node's render_additive first polls its load thread.
render ==
    /\ nodes /= <<>>
    /\ LET res == [i \in 1..Len(nodes) |-> handle_sf_load(nodes[i].node, jobs)]
           CalledFor(r) == {i \in 1..Len(nodes) :
                              IsSome(res[i].called) /\ Unwrap(res[i].called).responder = r}
           JoinedBy(j) == {i \in 1..Len(nodes) :
                              /\ sf_load_finished(nodes[i].node, jobs)
                              /\ Unwrap(nodes[i].node.sf_load_handle) = j}
       IN  /\ nodes' = [i \in 1..Len(nodes) |-> [nodes[i] EXCEPT !.node = res[i].node]]
           /\ responses' =
                 [r \in DOMAIN responses |->
                    IF CalledFor(r) /= {}
                    THEN LET i == CHOOSE i \in CalledFor(r) : TRUE
                         IN  Append(responses[r],
                                    NodeResponse(Unwrap(res[i].called).id, res[i].with))
                    ELSE responses[r]]
           /\ jobs' = [j \in 1..Len(jobs) |->
                         IF JoinedBy(j) /= {} THEN [jobs[j] EXCEPT !.joined = TRUE]
                         ELSE jobs[j]]
    /\ UNCHANGED <<req_rx, nreq, closed, updates, last>>
    /\ UNCHANGED <<audioVars, drumVars, midiVars, cycleVars, beatVars, unitVars>>

process_json_updates ==
    /\ \E i \in 1..Len(nodes) : nodes[i].node.json_updates /= <<>>
    /\ LET all == [i \in 1..Len(nodes) |->
                     [kind |-> "NodeUpdates", id |-> i - 1,
                      updates |-> nodes[i].node.json_updates]]
           NonEmpty(u) == u.updates /= <<>>
       IN  updates' = updates \o SelectSeq(all, NonEmpty)
    /\ nodes' = [i \in 1..Len(nodes) |-> [nodes[i] EXCEPT !.node.json_updates = <<>>]]
    /\ UNCHANGED <<req_rx, nreq, responses, closed, jobs, last>>
    /\ UNCHANGED <<audioVars, drumVars, midiVars, cycleVars, beatVars, unitVars>>

\* A load thread runs to its end: Ok(..) if the file opens and parses.
JobFinish(j) ==
    /\ jobs[j].status = "running"
    /\ jobs' = [jobs EXCEPT ![j].status = IF FileLoads(jobs[j].file) THEN "ok" ELSE "err"]
    /\ UNCHANGED <<nodes, req_rx, nreq, responses, closed, updates, last>>
    /\ UNCHANGED <<audioVars, drumVars, midiVars, cycleVars, beatVars, unitVars>>

GraphInit ==
    /\ nodes = <<>>
    /\ req_rx = <<>>
    /\ nreq = 0
    /\ responses = [r \in 1..MaxReqs |-> <<>>]
    /\ closed = {}
    /\ updates = <<>>
    /\ jobs = <<>>
    /\ last = None

\* ------------------------------------------------------------------------
\* Step-sequencer voices (control/voices.rs) and rhythm (rhythm.rs)
\* ------------------------------------------------------------------------
Rhythm(b, d) == [num_beats |-> b, num_divs |-> d]
DefaultRhythm == Rhythm(4, 4)
num_slots(r) == r.num_beats * r.num_divs

Falses(n) == [i \in 1..n |-> FALSE]

\* Vec::resize(n, false)
resize(slots, n) ==
    IF n <= Len(slots) THEN SubSeq(slots, 1, n) ELSE slots \o Falses(n - Len(slots))

\* Filling the new slots with the slot before them instead of false.
interpolate_slots_repeat(slots, factor) ==
    [i \in 1..(Len(slots) * factor) |-> slots[((i - 1) \div factor) + 1]]

interpolate_slots(slots, factor) ==
    [i \in 1..(Len(slots) * factor) |->
        IF (i - 1) % factor = 0 THEN slots[((i - 1) \div factor) + 1] ELSE FALSE]

\* Keeping the last slot of every group instead of the first.
decimate_slots_last(slots, factor) ==
    [i \in 1..(Len(slots) \div factor) |-> slots[i * factor]]

decimate_slots(slots, factor) ==
    [i \in 1..((Len(slots) + factor - 1) \div factor) |-> slots[(i - 1) * factor + 1]]

\* voices.iter_mut().for_each(..): every voice gets the slots computed for it.
WithSlots(vs, sl) ==
    [vs EXCEPT !.voices = [i \in 1..Len(vs.voices) |->
                              [vs.voices[i] EXCEPT !.slots = sl[i]]]]

update_slots_interleave(vs, factor) ==
    WithSlots(vs, [i \in 1..Len(vs.voices) |->
                     interpolate_slots(vs.voices[i].slots, factor)])

\* Resizing to the difference instead of growing by it.
update_slots_append_to(vs, number) ==
    WithSlots(vs, [i \in 1..Len(vs.voices) |-> resize(vs.voices[i].slots, number)])

update_slots_append(vs, number) ==
    WithSlots(vs, [i \in 1..Len(vs.voices) |->
                     resize(vs.voices[i].slots, Len(vs.voices[i].slots) + number)])

update_slots_decimate(vs, factor) ==
    WithSlots(vs, [i \in 1..Len(vs.voices) |->
                     decimate_slots(vs.voices[i].slots, factor)])

\* slots.len() - number is a usize subtraction: it panics when checked and
\* wraps to a length no allocation can satisfy when not.
CutOutPanics(vs, number) == \E i \in 1..Len(vs.voices) : Len(vs.voices[i].slots) < number

update_slots_cut_out(vs, number) ==
    WithSlots(vs, [i \in 1..Len(vs.voices) |->
                     resize(vs.voices[i].slots, Len(vs.voices[i].slots) - number)])

update_slots_resize(vs, size) ==
    WithSlots(vs, [i \in 1..Len(vs.voices) |-> resize(vs.voices[i].slots, size)])

\* The result carries whether the call panicked.
update_slots(vs, prev_num_slots) ==
    LET n == vs.num_slots
        Done(v) == [panicked |-> FALSE, voices |-> v]
    IN  IF prev_num_slots = 0 \/ n = 0 THEN Done(update_slots_resize(vs, n))
        ELSE IF n > prev_num_slots
        THEN IF n % prev_num_slots = 0
             THEN Done(update_slots_interleave(vs, n \div prev_num_slots))
             ELSE Done(update_slots_append(vs, n - prev_num_slots))
        ELSE IF n < prev_num_slots
        THEN IF prev_num_slots % n = 0
             THEN Done(update_slots_decimate(vs, prev_num_slots \div n))
             ELSE IF CutOutPanics(vs, prev_num_slots - n)
                  THEN [panicked |-> TRUE, voices |-> vs]
                  ELSE Done(update_slots_cut_out(vs, prev_num_slots - n))
        ELSE Done(vs)

set_num_slots(vs, n) == update_slots([vs EXCEPT !.num_slots = n], vs.num_slots)

add_voice(vs) ==
    [vs EXCEPT !.voices = Append(@, [name |-> "", instrument_index |-> None,
                                     channel |-> 9, note |-> 0, velocity |-> 127,
                                     slots |-> Falses(vs.num_slots)])]

\* The Voices operations answer Ok(()) or Err.
VOk(vs) == [ok |-> TRUE, voices |-> vs]
VErr(vs) == [ok |-> FALSE, voices |-> vs]

remove_voice(vs, index) ==
    IF index < Len(vs.voices)
    THEN VOk([vs EXCEPT !.voices = SubSeq(@, 1, index) \o SubSeq(@, index + 2, Len(@))])
    ELSE VErr(vs)

clear(vs) == [vs EXCEPT !.voices = <<>>]

set_voice_instrument(vs, voice_index, instrument_index) ==
    IF voice_index < Len(vs.voices)
    THEN VOk([vs EXCEPT !.voices[voice_index + 1].instrument_index = instrument_index])
    ELSE VErr(vs)

set_voice_name(vs, voice_index, name) ==
    IF voice_index < Len(vs.voices)
    THEN VOk([vs EXCEPT !.voices[voice_index + 1].name = name])
    ELSE VErr(vs)

\* Storing the note and answering Ok(()) whatever the index is.
set_voice_note_unchecked(vs, voice_index, note) ==
    VOk([vs EXCEPT !.voices = [i \in 1..Len(@) |->
                                  IF i = voice_index + 1 THEN [@[i] EXCEPT !.note = note]
                                  ELSE @[i]]])

set_voice_note(vs, voice_index, note) ==
    IF voice_index < Len(vs.voices)
    THEN VOk([vs EXCEPT !.voices[voice_index + 1].note = note])
    ELSE VErr(vs)

set_voice_velocity(vs, voice_index, velocity) ==
    IF voice_index < Len(vs.voices)
    THEN VOk([vs EXCEPT !.voices[voice_index + 1].velocity = velocity])
    ELSE VErr(vs)

set_voice_channel(vs, voice_index, channel) ==
    IF voice_index < Len(vs.voices)
    THEN VOk([vs EXCEPT !.voices[voice_index + 1].channel = channel])
    ELSE VErr(vs)

set_slot(vs, voice_index, slot_index, flag) ==
    IF voice_index < Len(vs.voices)
    THEN IF slot_index < Len(vs.voices[voice_index + 1].slots)
         THEN VOk([vs EXCEPT !.voices[voice_index + 1].slots[slot_index + 1] = flag])
         ELSE VErr(vs)
    ELSE VErr(vs)

\* ------------------------------------------------------------------------
\* The beat scheduler (control/drum_machine.rs)
\* ------------------------------------------------------------------------
\* f32 values: finite (in twelfths of a second), +inf, -inf and NaN.
Fin(v) == [k |-> "fin", v |-> v]
Inf == [k |-> "inf", v |-> 0]
NegInf == [k |-> "ninf", v |-> 0]
NaN == [k |-> "nan", v |-> 0]

FNeg(a) == CASE a.k = "fin" -> Fin(0 - a.v)
             [] a.k = "inf" -> NegInf
             [] a.k = "ninf" -> Inf
             [] OTHER -> NaN

FAdd(a, b) ==
    CASE a.k = "nan" \/ b.k = "nan" -> NaN
      [] a.k = "fin" /\ b.k = "fin" -> Fin(a.v + b.v)
      [] a.k = "fin" -> b
      [] b.k = "fin" -> a
      [] a.k = b.k -> a
      [] OTHER -> NaN

FSub(a, b) == FAdd(a, FNeg(b))

FGe(a, b) ==
    CASE a.k = "nan" \/ b.k = "nan" -> FALSE
      [] a.k = "fin" /\ b.k = "fin" -> a.v >= b.v
      [] a.k = "inf" -> TRUE
      [] b.k = "ninf" -> TRUE
      [] OTHER -> FALSE

\* 60.0 / (tempo_bpm * num_divs as f32), a minute being 720 twelfths.
period(d) ==
    IF d.tempo_bpm * d.rhythm.num_divs = 0 THEN Inf
    ELSE Fin((60 * 12) \div (d.tempo_bpm * d.rhythm.num_divs))

timestamp(t) == Fin(t)

Panic(d) == [d EXCEPT !.panicked = TRUE]

\* DrumMachine::new
NewDrumMachine ==
    [enabled |-> TRUE,
     voices |-> set_num_slots([num_slots |-> 0, voices |-> <<>>],
                              num_slots(DefaultRhythm)).voices,
     rhythm |-> DefaultRhythm, tempo_bpm |-> 90, last_time |-> Fin(0),
     current_beat |-> 0, current_div |-> 0, panicked |-> FALSE]

\* Each request handler gives the machine afterwards and its answer.
DmUpdated(d) == [dm |-> d, res |-> "Update"]
DmFailed(d) == [dm |-> d, res |-> "Failed"]

\* u8 `x - 1`: panics on underflow when checked, wraps when not.
reset(d, t, checks) ==
    LET d1 == [d EXCEPT !.last_time = FSub(timestamp(t), period(d))]
    IN  IF d.rhythm.num_beats = 0 /\ checks THEN DmFailed(Panic(d1))
        ELSE LET d2 == [d1 EXCEPT !.current_beat = (d.rhythm.num_beats - 1) % 256]
             IN  IF d.rhythm.num_divs = 0 /\ checks THEN DmFailed(Panic(d2))
                 ELSE DmUpdated([d2 EXCEPT !.current_div = (d.rhythm.num_divs - 1) % 256])

dm_set_enabled(d, flag, t, checks) ==
    LET d1 == [d EXCEPT !.enabled = flag]
    IN  IF flag
        THEN LET r == reset(d1, t, checks)
             IN  IF r.dm.panicked THEN r ELSE DmUpdated(r.dm)
        ELSE DmUpdated(d1)

dm_add_voice(d) == DmUpdated([d EXCEPT !.voices = add_voice(d.voices)])

dm_remove_voice(d, index) ==
    LET r == remove_voice(d.voices, index)
    IN  IF r.ok THEN DmUpdated([d EXCEPT !.voices = r.voices]) ELSE DmFailed(d)

clear_voices(d) == DmUpdated([d EXCEPT !.voices = clear(d.voices)])

dm_set_voice_instrument(d, voice_index, ins) ==
    LET r == set_voice_instrument(d.voices, voice_index, ins)
    IN  IF r.ok THEN DmUpdated([d EXCEPT !.voices = r.voices]) ELSE DmFailed(d)

dm_set_voice_name(d, voice_index, name) ==
    LET r == set_voice_name(d.voices, voice_index, name)
    IN  IF r.ok THEN DmUpdated([d EXCEPT !.voices = r.voices]) ELSE DmFailed(d)

dm_set_voice_note(d, voice_index, note) ==
    LET r == set_voice_note(d.voices, voice_index, note)
    IN  IF r.ok THEN DmUpdated([d EXCEPT !.voices = r.voices]) ELSE DmFailed(d)

dm_set_voice_velocity(d, voice_index, velocity) ==
    LET r == set_voice_velocity(d.voices, voice_index, velocity)
    IN  IF r.ok THEN DmUpdated([d EXCEPT !.voices = r.voices]) ELSE DmFailed(d)

\* SetVoiceChannel is a command of the sequencer node only
\* (control/node/drum_machine.rs), which answers Ok or Failed the same way.
dm_set_voice_channel(d, voice_index, channel) ==
    LET r == set_voice_channel(d.voices, voice_index, channel)
    IN  IF r.ok THEN DmUpdated([d EXCEPT !.voices = r.voices]) ELSE DmFailed(d)

dm_set_slot(d, voice_index, slot_index, flag) ==
    LET r == set_slot(d.voices, voice_index, slot_index, flag)
    IN  IF r.ok THEN DmUpdated([d EXCEPT !.voices = r.voices]) ELSE DmFailed(d)

set_rhythm(d, r) ==
    LET u == set_num_slots(d.voices, num_slots(r))
        d1 == [d EXCEPT !.rhythm = r]
    IN  IF u.panicked THEN DmFailed(Panic(d1))
        ELSE DmUpdated([d1 EXCEPT !.voices = u.voices])

set_tempo_bpm(d, tempo) == DmUpdated([d EXCEPT !.tempo_bpm = tempo])

dm_process_request(d, kind, t, checks) ==
    CASE kind.kind = "SetEnabled" -> dm_set_enabled(d, kind.arg, t, checks)
      [] kind.kind = "AddVoice" -> dm_add_voice(d)
      [] kind.kind = "RemoveVoice" -> dm_remove_voice(d, kind.arg)
      [] kind.kind = "ClearVoices" -> clear_voices(d)
      [] kind.kind = "SetVoiceInstrument" ->
            dm_set_voice_instrument(d, kind.arg[1], kind.arg[2])
      [] kind.kind = "SetVoiceName" -> dm_set_voice_name(d, kind.arg[1], kind.arg[2])
      [] kind.kind = "SetVoiceNote" -> dm_set_voice_note(d, kind.arg[1], kind.arg[2])
      [] kind.kind = "SetVoiceVelocity" ->
            dm_set_voice_velocity(d, kind.arg[1], kind.arg[2])
      [] kind.kind = "SetVoiceChannel" ->
            dm_set_voice_channel(d, kind.arg[1], kind.arg[2])
      [] kind.kind = "SetSlot" -> dm_set_slot(d, kind.arg[1], kind.arg[2], kind.arg[3])
      [] kind.kind = "SetRhythm" -> set_rhythm(d, kind.arg)
      [] kind.kind = "SetTempoBpm" -> set_tempo_bpm(d, kind.arg)
      [] OTHER -> reset(d, t, checks)

slot_index(d, beat_num, div_num) == beat_num * d.rhythm.num_divs + div_num

\* The messages produce_noise sends for one voice: note on, then note off.
produce_noise(instrument_id, channel, note, velocity) ==
    <<[instrument_id |-> instrument_id, channel |-> channel, note |-> note,
       velocity |-> velocity],
      [instrument_id |-> instrument_id, channel |-> channel, note |-> note,
       velocity |-> 0]>>

RECURSIVE BeatTickFrom(_, _, _)
BeatTickFrom(d, idx, i) ==
    IF i > Len(d.voices.voices) THEN <<>>
    ELSE LET voice == d.voices.voices[i]
             hit == /\ IsSome(voice.instrument_index)
                    /\ idx < Len(voice.slots)
                    /\ voice.slots[idx + 1]
         IN  (IF hit THEN produce_noise(Unwrap(voice.instrument_index), voice.channel,
                                        voice.note, voice.velocity)
              ELSE <<>>) \o BeatTickFrom(d, idx, i + 1)

beat_tick(d, beat_num, div_num) == BeatTickFrom(d, slot_index(d, beat_num, div_num), 1)

\* u8 `x + 1` panics on overflow when checked; `% 0` always panics.
advance_beat(d, checks) ==
    IF (d.current_beat + 1 > 255 /\ checks) \/ d.rhythm.num_beats = 0 THEN Panic(d)
    ELSE [d EXCEPT !.current_beat = ((d.current_beat + 1) % 256) % d.rhythm.num_beats]

advance_div(d, checks) ==
    IF (d.current_div + 1 > 255 /\ checks) \/ d.rhythm.num_divs = 0 THEN Panic(d)
    ELSE LET d1 == [d EXCEPT !.current_div =
                                ((d.current_div + 1) % 256) % d.rhythm.num_divs]
         IN  IF d1.current_div = 0 THEN advance_beat(d1, checks) ELSE d1

\* Requests a client may send to the scheduler.
Rhythms ==
    {Rhythm(4, 4), Rhythm(8, 4), Rhythm(2, 2), Rhythm(3, 4), Rhythm(4, 0), Rhythm(0, 2)}

DmRequests ==
    {[kind |-> "SetEnabled", arg |-> f] : f \in BOOLEAN}
    \cup {[kind |-> "AddVoice", arg |-> 0], [kind |-> "ClearVoices", arg |-> 0],
          [kind |-> "Reset", arg |-> 0]}
    \cup {[kind |-> "RemoveVoice", arg |-> 0]}
    \cup {[kind |-> "SetVoiceInstrument", arg |-> <<0, Some(0)>>]}
    \cup {[kind |-> "SetSlot", arg |-> <<0, i, TRUE>>] : i \in {1, 16}}
    \cup {[kind |-> "SetRhythm", arg |-> r] : r \in Rhythms}
    \cup {[kind |-> "SetTempoBpm", arg |-> 180]}

\* The voice commands, naming a voice that may or may not exist.
VoiceIndices == {0, 1}

VoiceRequests ==
    {[kind |-> "AddVoice", arg |-> 0]}
    \cup {[kind |-> "RemoveVoice", arg |-> i] : i \in VoiceIndices}
    \cup {[kind |-> "SetVoiceName", arg |-> <<i, "kick">>] : i \in VoiceIndices}
    \cup {[kind |-> "SetVoiceInstrument", arg |-> <<i, Some(0)>>] : i \in VoiceIndices}
    \cup {[kind |-> "SetVoiceNote", arg |-> <<i, 200>>] : i \in VoiceIndices}
    \cup {[kind |-> "SetVoiceVelocity", arg |-> <<i, 100>>] : i \in VoiceIndices}
    \cup {[kind |-> "SetVoiceChannel", arg |-> <<i, 16>>] : i \in VoiceIndices}
    \cup {[kind |-> "SetSlot", arg |-> <<i, k, TRUE>>] : i \in VoiceIndices, k \in {0, 16}}

LastTwo(q) == IF Len(q) > 2 THEN SubSeq(q, Len(q) - 1, Len(q)) ELSE q

\* receive_requests: every queued request is processed, in order; a panic
\* ends the task and leaves the rest unprocessed.
RECURSIVE receive_requests(_, _, _, _)
receive_requests(acc, q, t, checks) ==
    IF q = <<>> \/ acc.dm.panicked THEN acc
    ELSE LET r == dm_process_request(acc.dm, Head(q), t, checks)
             sn == IF Head(q).kind = "SetRhythm"
                   THEN LastTwo(Append(acc.snaps, [rhythm |-> acc.dm.rhythm,
                                                   voices |-> acc.dm.voices]))
                   ELSE <<>>
         IN  receive_requests([dm |-> r.dm, results |-> Append(acc.results, r.res),
                               snaps |-> sn], Tail(q), t, checks)

DrumInit ==
    /\ overflow_checks \in BOOLEAN
    /\ dm = NewDrumMachine
    /\ dm_req_rx = <<>>
    /\ dm_nreq = 0
    /\ now = 0
    /\ sent = <<>>
    /\ fired = None
    /\ results = <<>>
    /\ snaps = <<>>

DmSubmit(kind) ==
    /\ dm_nreq < MaxDmReqs
    /\ Len(dm_req_rx) < DmQueueCap
    /\ dm_nreq' = dm_nreq + 1
    /\ dm_req_rx' = Append(dm_req_rx, kind)
    /\ UNCHANGED <<overflow_checks, dm, now, sent, fired, results, snaps>>
    /\ UNCHANGED <<graphVars, audioVars, midiVars, cycleVars, beatVars, unitVars>>

TimePasses ==
    /\ now < MaxTime
    /\ now' = now + 1
    /\ UNCHANGED <<overflow_checks, dm, dm_req_rx, dm_nreq, sent, fired, results, snaps>>
    /\ UNCHANGED <<graphVars, audioVars, midiVars, cycleVars, beatVars, unitVars>>

\* tick setting last_time to the time of the call when it fires.
TickStep_resync ==
    /\ ~dm.panicked
    /\ LET a == receive_requests([dm |-> dm, results |-> <<>>, snaps |-> snaps],
                                 dm_req_rx, now, overflow_checks)
           d == a.dm
           due == /\ ~d.panicked
                  /\ d.enabled
                  /\ FGe(FSub(timestamp(now), d.last_time), period(d))
           adv == advance_div(d, overflow_checks)
       IN  /\ dm' = IF ~due THEN d
                    ELSE IF adv.panicked THEN adv
                    ELSE [adv EXCEPT !.last_time = timestamp(now)]
           /\ sent' = IF due THEN beat_tick(d, d.current_beat, d.current_div) ELSE <<>>
           /\ fired' = IF due
                       THEN Some([beat |-> d.current_beat, div |-> d.current_div,
                                  rhythm |-> d.rhythm])
                       ELSE None
           /\ results' = a.results
           /\ snaps' = a.snaps
    /\ dm_req_rx' = <<>>
    /\ UNCHANGED <<overflow_checks, dm_nreq, now>>
    /\ UNCHANGED <<graphVars, audioVars, midiVars, cycleVars, unitVars>>

\* DrumMachine::tick, called at time `now`.
TickStep ==
    /\ ~dm.panicked
    /\ LET a == receive_requests([dm |-> dm, results |-> <<>>, snaps |-> snaps],
                                 dm_req_rx, now, overflow_checks)
           d == a.dm
           due == /\ ~d.panicked
                  /\ d.enabled
                  /\ FGe(FSub(timestamp(now), d.last_time), period(d))
           adv == advance_div(d, overflow_checks)
       IN  /\ dm' = IF ~due THEN d
                    ELSE IF adv.panicked THEN adv
                    ELSE [adv EXCEPT !.last_time = FAdd(@, period(d))]
           /\ sent' = IF due THEN beat_tick(d, d.current_beat, d.current_div) ELSE <<>>
           /\ fired' = IF due
                       THEN Some([beat |-> d.current_beat, div |-> d.current_div,
                                  rhythm |-> d.rhythm])
                       ELSE None
           /\ results' = a.results
           /\ snaps' = a.snaps
    /\ dm_req_rx' = <<>>
    /\ UNCHANGED <<overflow_checks, dm_nreq, now>>
    /\ UNCHANGED <<graphVars, audioVars, midiVars, cycleVars, unitVars>>

tick == TickStep /\ UNCHANGED beatVars

\* ------------------------------------------------------------------------
\* The audio hand-off (audio/output.rs, main.rs run_renderer)
\* ------------------------------------------------------------------------
\* Block lengths the device may hand to the callback, in frames.
BlockLens == 0..(BufferSize + 1)

Min(a, b) == IF a < b THEN a ELSE b

\* ringbuf push_slice: appends as many items as fit.
push_slice(occupied, n) == Min(BufferSize, occupied + n)

AudioInit ==
    /\ cb_pc = "idle"
    /\ curr_buf_size = 0
    /\ frame = 0
    /\ required_num_samples = 0
    /\ lbuf_q = 0
    /\ rbuf_q = 0
    /\ rn_pc = "wait"
    /\ rn_size = 0
    /\ renders = <<>>
    /\ ncallbacks = 0

\* The device invokes the callback with a buffer of n frames.
CbInvoke(n) ==
    /\ cb_pc \in {"idle", "returned"}
    /\ ncallbacks < MaxCallbacks
    /\ ncallbacks' = ncallbacks + 1
    /\ curr_buf_size' = n
    /\ frame' = 0
    /\ renders' = <<>>
    /\ cb_pc' = "clear_l"
    /\ UNCHANGED <<required_num_samples, lbuf_q, rbuf_q, rn_pc, rn_size>>
    /\ UNCHANGED <<graphVars, drumVars, midiVars, cycleVars, beatVars, unitVars>>

CbClearL ==
    /\ cb_pc = "clear_l"
    /\ lbuf_q' = 0
    /\ cb_pc' = "clear_r"
    /\ UNCHANGED <<curr_buf_size, frame, required_num_samples, rbuf_q, rn_pc, rn_size,
                   renders, ncallbacks>>
    /\ UNCHANGED <<graphVars, drumVars, midiVars, cycleVars, beatVars, unitVars>>

CbClearR ==
    /\ cb_pc = "clear_r"
    /\ rbuf_q' = 0
    /\ cb_pc' = "store"
    /\ UNCHANGED <<curr_buf_size, frame, required_num_samples, lbuf_q, rn_pc, rn_size,
                   renders, ncallbacks>>
    /\ UNCHANGED <<graphVars, drumVars, midiVars, cycleVars, beatVars, unitVars>>

CbStore ==
    /\ cb_pc = "store"
    /\ required_num_samples' = curr_buf_size
    /\ cb_pc' = "poll"
    /\ UNCHANGED <<curr_buf_size, frame, lbuf_q, rbuf_q, rn_pc, rn_size, renders,
                   ncallbacks>>
    /\ UNCHANGED <<graphVars, drumVars, midiVars, cycleVars, beatVars, unitVars>>

\* One test of the polling loop's condition; while it holds the callback
\* sleeps and tests again.
CbPoll ==
    /\ cb_pc = "poll"
    /\ cb_pc' = IF lbuf_q < curr_buf_size \/ rbuf_q < curr_buf_size
                THEN "poll" ELSE "drain"
    /\ UNCHANGED <<curr_buf_size, frame, required_num_samples, lbuf_q, rbuf_q, rn_pc,
                   rn_size, renders, ncallbacks>>
    /\ UNCHANGED <<graphVars, drumVars, midiVars, cycleVars, beatVars, unitVars>>

\* One iteration of the drain loop: a frame takes one sample from each
\* queue; try_pop().expect panics on an empty queue.
CbDrainFrame ==
    /\ cb_pc = "drain"
    /\ frame < curr_buf_size
    /\ IF lbuf_q = 0 \/ rbuf_q = 0
       THEN /\ cb_pc' = "panicked"
            /\ UNCHANGED <<frame, lbuf_q, rbuf_q>>
       ELSE /\ lbuf_q' = lbuf_q - 1
            /\ rbuf_q' = rbuf_q - 1
            /\ frame' = frame + 1
            /\ cb_pc' = cb_pc
    /\ UNCHANGED <<curr_buf_size, required_num_samples, rn_pc, rn_size, renders,
                   ncallbacks>>
    /\ UNCHANGED <<graphVars, drumVars, midiVars, cycleVars, beatVars, unitVars>>

CbReturn ==
    /\ cb_pc = "drain"
    /\ frame = curr_buf_size
    /\ cb_pc' = "returned"
    /\ UNCHANGED <<curr_buf_size, frame, required_num_samples, lbuf_q, rbuf_q, rn_pc,
                   rn_size, renders, ncallbacks>>
    /\ UNCHANGED <<graphVars, drumVars, midiVars, cycleVars, beatVars, unitVars>>

\* run_renderer: one test of `while load() == 0`.
RnWait ==
    /\ rn_pc = "wait"
    /\ rn_pc' = IF required_num_samples = 0 THEN "wait" ELSE "load"
    /\ UNCHANGED <<cb_pc, curr_buf_size, frame, required_num_samples, lbuf_q, rbuf_q,
                   rn_size, renders, ncallbacks>>
    /\ UNCHANGED <<graphVars, drumVars, midiVars, cycleVars, beatVars, unitVars>>

RnLoad ==
    /\ rn_pc = "load"
    /\ rn_size' = required_num_samples
    /\ rn_pc' = "reset"
    /\ UNCHANGED <<cb_pc, curr_buf_size, frame, required_num_samples, lbuf_q, rbuf_q,
                   renders, ncallbacks>>
    /\ UNCHANGED <<graphVars, drumVars, midiVars, cycleVars, beatVars, unitVars>>

\* The loop going on without storing zero into the counter.
RnReset_keeps ==
    /\ rn_pc = "reset"
    /\ rn_pc' = "render"
    /\ UNCHANGED <<cb_pc, curr_buf_size, frame, required_num_samples, lbuf_q, rbuf_q,
                   rn_size, renders, ncallbacks>>
    /\ UNCHANGED <<graphVars, drumVars, midiVars, cycleVars, beatVars, unitVars>>

RnReset ==
    /\ rn_pc = "reset"
    /\ required_num_samples' = 0
    /\ rn_pc' = "render"
    /\ UNCHANGED <<cb_pc, curr_buf_size, frame, lbuf_q, rbuf_q, rn_size, renders,
                   ncallbacks>>
    /\ UNCHANGED <<graphVars, drumVars, midiVars, cycleVars, beatVars, unitVars>>

RnRender ==
    /\ rn_pc = "render"
    /\ renders' = Append(renders, rn_size)
    /\ rn_pc' = "push_l"
    /\ UNCHANGED <<cb_pc, curr_buf_size, frame, required_num_samples, lbuf_q, rbuf_q,
                   rn_size, ncallbacks>>
    /\ UNCHANGED <<graphVars, drumVars, midiVars, cycleVars, beatVars, unitVars>>

RnPushL ==
    /\ rn_pc = "push_l"
    /\ lbuf_q' = push_slice(lbuf_q, rn_size)
    /\ rn_pc' = "push_r"
    /\ UNCHANGED <<cb_pc, curr_buf_size, frame, required_num_samples, rbuf_q, rn_size,
                   renders, ncallbacks>>
    /\ UNCHANGED <<graphVars, drumVars, midiVars, cycleVars, beatVars, unitVars>>

RnPushR ==
    /\ rn_pc = "push_r"
    /\ rbuf_q' = push_slice(rbuf_q, rn_size)
    /\ rn_pc' = "wait"
    /\ UNCHANGED <<cb_pc, curr_buf_size, frame, required_num_samples, lbuf_q, rn_size,
                   renders, ncallbacks>>
    /\ UNCHANGED <<graphVars, drumVars, midiVars, cycleVars, beatVars, unitVars>>

Callback ==
    \/ \E n \in BlockLens : CbInvoke(n)
    \/ CbClearL
    \/ CbClearR
    \/ CbStore
    \/ CbPoll
    \/ CbDrainFrame
    \/ CbReturn

run_renderer == RnWait \/ RnLoad \/ RnReset \/ RnRender \/ RnPushL \/ RnPushR

\* ------------------------------------------------------------------------
\* MIDI messages (src/midi/msg.rs)
\* ------------------------------------------------------------------------
NoteOff(note, velocity) == [t |-> "NoteOff", note |-> note, velocity |-> velocity]
NoteOn(note, velocity) == [t |-> "NoteOn", note |-> note, velocity |-> velocity]
PolyphonicAftertouch(note, pressure) ==
    [t |-> "PolyphonicAftertouch", note |-> note, pressure |-> pressure]
ControlChange(kind, value) == [t |-> "ControlChange", kind |-> kind, value |-> value]
ProgramChange(program) == [t |-> "ProgramChange", program |-> program]
ChannelAftertouch(pressure) == [t |-> "ChannelAftertouch", pressure |-> pressure]
PitchWheel(value) == [t |-> "PitchWheel", value |-> value]

Message(kind, channel) == [kind |-> kind, channel |-> channel]

\* ControlChangeKind: one variant for each of the numbers 0..127.
from_number_any(number) == Some([number |-> number])

from_number(number) == IF number \in 0..127 THEN Some([number |-> number]) ELSE None
as_number(kind) == kind.number

\* What a parse function hands back: did an index run out of the slice (a
\* panic), and otherwise its Option.
Ret(o) == [panicked |-> FALSE, value |-> o]
Abort == [panicked |-> TRUE, value |-> None]
\* bytes[i] for every i of idxs is inside the slice (indices from 0).
Reads(bytes, idxs) == \A i \in idxs : i < Len(bytes)

parse_note_on(bytes) ==
    IF Len(bytes) < 3 THEN Ret(None)
    ELSE IF ~Reads(bytes, {1, 2}) THEN Abort
    ELSE LET velocity == bytes[3]
         IN  IF velocity = 0 THEN Ret(Some(NoteOff(bytes[2], velocity)))
             ELSE Ret(Some(NoteOn(bytes[2], velocity)))

parse_note_off(bytes) ==
    IF Len(bytes) < 3 THEN Ret(None)
    ELSE IF ~Reads(bytes, {1, 2}) THEN Abort
    ELSE Ret(Some(NoteOff(bytes[2], bytes[3])))

parse_polyphonic_aftertouch(bytes) ==
    IF Len(bytes) < 3 THEN Ret(None)
    ELSE IF ~Reads(bytes, {1, 2}) THEN Abort
    ELSE Ret(Some(PolyphonicAftertouch(bytes[2], bytes[3])))

parse_control_change(bytes) ==
    IF Len(bytes) < 3 THEN Ret(None)
    ELSE IF ~Reads(bytes, {1, 2}) THEN Abort
    ELSE LET kind == from_number(bytes[2])
         IN  IF IsSome(kind) THEN Ret(Some(ControlChange(Unwrap(kind), bytes[3])))
             ELSE Ret(None)

parse_program_change(bytes) ==
    IF Len(bytes) < 2 THEN Ret(None)
    ELSE IF ~Reads(bytes, {1}) THEN Abort
    ELSE Ret(Some(ProgramChange(bytes[2])))

parse_channel_aftertouch(bytes) ==
    IF Len(bytes) < 2 THEN Ret(None)
    ELSE IF ~Reads(bytes, {1}) THEN Abort
    ELSE Ret(Some(ChannelAftertouch(bytes[2])))

\* (b1 & 0x7F) | ((b2 & 0x7F) << 7): the two fields do not overlap.
parse_pitch_wheel(bytes) ==
    IF Len(bytes) < 3 THEN Ret(None)
    ELSE IF ~Reads(bytes, {1, 2}) THEN Abort
    ELSE Ret(Some(PitchWheel((bytes[2] % 128) + (bytes[3] % 128) * 128)))

decode_non_empty_message(bytes) ==
    IF ~Reads(bytes, {0}) THEN Abort
    ELSE LET cmd == (bytes[1] \div 16) * 16
             channel == bytes[1] % 16
             kind == CASE cmd = 128 -> parse_note_off(bytes)
                       [] cmd = 144 -> parse_note_on(bytes)
                       [] cmd = 160 -> parse_polyphonic_aftertouch(bytes)
                       [] cmd = 176 -> parse_control_change(bytes)
                       [] cmd = 192 -> parse_program_change(bytes)
                       [] cmd = 208 -> parse_channel_aftertouch(bytes)
                       [] cmd = 224 -> parse_pitch_wheel(bytes)
                       [] OTHER -> Ret(None)
         IN  IF kind.panicked THEN Abort
             ELSE IF IsSome(kind.value) THEN Ret(Some(Message(Unwrap(kind.value), channel)))
             ELSE Ret(None)

decode(bytes) == IF bytes = <<>> THEN Ret(None) ELSE decode_non_empty_message(bytes)

\* ------------------------------------------------------------------------
\* The MIDI filter (src/render/midi_filter.rs)
\* ------------------------------------------------------------------------
NUM_CHANNELS == 16
NUM_NOTES == 128
NUM_CONTROL_COMMANDS == 128

\* A Vec<bool> of length n is a function on 0..n-1.
DefaultMidiFilter ==
    [enabled |-> TRUE,
     channels |-> [i \in 0..(NUM_CHANNELS - 1) |-> TRUE],
     notes |-> [i \in 0..(NUM_NOTES - 1) |-> TRUE],
     control_commands |-> [i \in 0..(NUM_CONTROL_COMMANDS - 1) |-> TRUE],
     program_change |-> TRUE, channel_aftertouch |-> TRUE, pitch_wheel |-> TRUE]

\* The check by event type alone, with no look at the channel's flag.
does_pass_when_enabled_any_channel(f, message) ==
    LET kind == message.kind
    IN  IF message.channel \notin DOMAIN f.channels THEN Abort
        ELSE CASE kind.t \in {"NoteOn", "PolyphonicAftertouch"} ->
                    IF kind.note \notin DOMAIN f.notes THEN Abort
                    ELSE Ret(f.notes[kind.note])
               [] kind.t = "NoteOff" -> Ret(TRUE)
               [] kind.t = "ControlChange" ->
                    IF as_number(kind.kind) \notin DOMAIN f.control_commands THEN Abort
                    ELSE Ret(f.control_commands[as_number(kind.kind)])
               [] kind.t = "ProgramChange" -> Ret(f.program_change)
               [] kind.t = "ChannelAftertouch" -> Ret(f.channel_aftertouch)
               [] kind.t = "PitchWheel" -> Ret(f.pitch_wheel)

\* vec[i]: a panic when i is not an index of vec.
does_pass_when_enabled(f, message) ==
    LET kind == message.kind
    IN  IF message.channel \notin DOMAIN f.channels THEN Abort
        ELSE IF ~f.channels[message.channel] THEN Ret(FALSE)
        ELSE CASE kind.t = "NoteOn" ->
                    IF kind.note \notin DOMAIN f.notes THEN Abort
                    ELSE Ret(f.notes[kind.note])
               [] kind.t = "NoteOff" -> Ret(TRUE)
               [] kind.t = "PolyphonicAftertouch" ->
                    IF kind.note \notin DOMAIN f.notes THEN Abort
                    ELSE Ret(f.notes[kind.note])
               [] kind.t = "ControlChange" ->
                    IF as_number(kind.kind) \notin DOMAIN f.control_commands THEN Abort
                    ELSE Ret(f.control_commands[as_number(kind.kind)])
               [] kind.t = "ProgramChange" -> Ret(f.program_change)
               [] kind.t = "ChannelAftertouch" -> Ret(f.channel_aftertouch)
               [] kind.t = "PitchWheel" -> Ret(f.pitch_wheel)

\* Checking the message whether the filter is enabled or not.
does_pass_ignoring_enabled(f, message) == does_pass_when_enabled(f, message)

does_pass(f, message) ==
    IF ~f.enabled THEN Ret(TRUE) ELSE does_pass_when_enabled(f, message)

\* ------------------------------------------------------------------------
\* A node's reaction to a MIDI message (src/render/node/oxi_synth.rs; the
\* other node kinds read the same).  The engine is the sequence of the events
\* sent to it.
\* ------------------------------------------------------------------------
does_midi_msg_pass(n, msg) == IF msg.kind.t = "NoteOn" THEN n.enabled ELSE TRUE

\* velocity_map::Kind (src/render/velocity_map.rs)
Identity == [t |-> "Identity"]
Linear(min, max) == [t |-> "Linear", min |-> min, max |-> max]

\* (velocity as f32 / 127.0 * (max - min) as f32).round() as u8 + min, for
\* min <= max: f32::round rounds half away from zero, and velocity x
\* (max - min) / 127 is never half-way between two integers (127 is odd).
map_linear(velocity, min, max) ==
    (2 * velocity * (max - min) + 127) \div 254 + min

map(kind, velocity) ==
    IF kind.t = "Identity" THEN velocity ELSE map_linear(velocity, kind.min, kind.max)

\* i8::saturating_add
saturating_add(a, b) ==
    IF a + b > 127 THEN 127 ELSE IF a + b < -128 THEN -128 ELSE a + b

\* The two transpositions added as i8 wrapping_add would.
get_total_transposition_wrapping(n) ==
    IF n.ignore_global_transposition THEN n.transposition
    ELSE ((n.transposition + n.global_transposition + 128) % 256) - 128

get_total_transposition(n) ==
    IF n.ignore_global_transposition THEN n.transposition
    ELSE saturating_add(n.transposition, n.global_transposition)

\* (note as i16 + total as i16) as u8
transpose_note(n, note) == (note + get_total_transposition(n)) % 256

send_event(n, ev) ==
    IF IsSome(n.synth) THEN [n EXCEPT !.synth = Some(Append(Unwrap(@), ev))] ELSE n

note_on(n, note, velocity) ==
    send_event(n, [e |-> "NoteOn", key |-> transpose_note(n, note), vel |-> velocity])

note_off(n, note) == send_event(n, [e |-> "NoteOff", key |-> transpose_note(n, note)])

polyphonic_aftertouch(n, note, pressure) ==
    send_event(n, [e |-> "PolyphonicKeyPressure", key |-> note, value |-> pressure])

control_change(n, kind, value) ==
    LET c == as_number(kind)
        n1 == [n EXCEPT !.last_cc = [x \in DOMAIN @ \cup {c} |->
                                        IF x = c THEN value ELSE @[x]]]
    IN  send_event(n1, [e |-> "ControlChange", ctrl |-> c, value |-> value])

program_change(n, program) ==
    send_event(n, [e |-> "ProgramChange", program_id |-> program])

channel_aftertouch(n, pressure) ==
    send_event(n, [e |-> "ChannelPressure", value |-> pressure])

pitch_wheel(n, value) ==
    send_event([n EXCEPT !.last_pitch_wheel = value],
               [e |-> "PitchBend", value |-> value])

process_midi_message_kind(n, kind) ==
    CASE kind.t = "NoteOn" -> note_on(n, kind.note, kind.velocity)
      [] kind.t = "NoteOff" -> note_off(n, kind.note)
      [] kind.t = "PolyphonicAftertouch" -> polyphonic_aftertouch(n, kind.note, kind.pressure)
      [] kind.t = "ControlChange" -> control_change(n, kind.kind, kind.value)
      [] kind.t = "ProgramChange" -> program_change(n, kind.program)
      [] kind.t = "ChannelAftertouch" -> channel_aftertouch(n, kind.pressure)
      [] kind.t = "PitchWheel" -> pitch_wheel(n, kind.value)

process_midi_message(n, message) == process_midi_message_kind(n, message.kind)

\* The node afterwards, and whether the call panicked.
receive_midi_message(n, message) ==
    LET fp == does_pass(n.midi_filter, message)
    IN  IF fp.panicked THEN [panicked |-> TRUE, node |-> n]
        ELSE IF fp.value /\ does_midi_msg_pass(n, message)
        THEN [panicked |-> FALSE, node |-> process_midi_message(n, message)]
        ELSE [panicked |-> FALSE, node |-> n]

\* ------------------------------------------------------------------------
\* The MIDI path: port callback -> broadcast channel -> Renderer::update ->
\* every node; sequencer -> control channel -> Renderer::update -> one node
\* (src/midi/reader.rs, src/midi/mod.rs, src/render/renderer.rs)
\* ------------------------------------------------------------------------
\* The byte buffers the port hands to the callback.
StatusBytes == {0, 128, 129, 144, 145, 160, 176, 192, 208, 224, 240}
SecondBytes == {60, 200}
ThirdBytes == {0, 100}
Buffers ==
    {<<>>} \cup {<<s>> : s \in StatusBytes}
           \cup {<<s, a>> : s \in StatusBytes, a \in SecondBytes}
           \cup {<<s, a, b>> : s \in StatusBytes, a \in SecondBytes, b \in ThirdBytes}

\* Nodes as requests can have left them: loaded and untouched; disabled;
\* note 60 filtered out and transposed by an octave; filter switched off and
\* no engine loaded; filter switched off, loaded.
LoadedNode ==
    [enabled |-> TRUE, midi_filter |-> DefaultMidiFilter, synth |-> Some(<<>>),
     last_cc |-> <<>>, last_pitch_wheel |-> 8192, transposition |-> 0,
     global_transposition |-> GlobalTransposition,
     velocity_mapping |-> Identity, gain |-> 1,
     tmp_lbuf |-> <<>>, tmp_rbuf |-> <<>>,
     ignore_global_transposition |-> FALSE]
NodeConfigs ==
    {LoadedNode,
     [LoadedNode EXCEPT !.enabled = FALSE],
     [LoadedNode EXCEPT !.midi_filter.notes[60] = FALSE, !.transposition = 12],
     [LoadedNode EXCEPT !.midi_filter.enabled = FALSE, !.synth = None],
     [LoadedNode EXCEPT !.midi_filter.enabled = FALSE]}
MidiGraphs == UNION {[1..n -> NodeConfigs] : n \in 0..MaxMidiNodes}

\* tokio::sync::broadcast: a channel of MidiChanCap slots; a send into a full
\* channel overwrites the oldest value and leaves the receiver lagging.
broadcast_send(rx, k) ==
    IF Len(rx.buf) < MidiChanCap THEN [rx EXCEPT !.buf = Append(@, k)]
    ELSE [buf |-> Append(Tail(rx.buf), k), lagged |-> TRUE]

\* for (_, node) in &mut self.nodes { node.receive_midi_message(&msg) },
\* from node i on; k is the number of the message.
RECURSIVE ToEveryNode(_, _, _, _)
ToEveryNode(acc, message, k, i) ==
    IF acc.panicked \/ i > Len(acc.nodes) THEN acc
    ELSE LET r == receive_midi_message(acc.nodes[i], message)
         IN  ToEveryNode([panicked |-> r.panicked,
                          nodes |-> [acc.nodes EXCEPT ![i] = r.node],
                          delivered |-> Append(acc.delivered, <<k, i>>)],
                         message, k, i + 1)

\* while let Ok(msg) = self.midi_rx.try_recv(): q holds the numbers of the
\* messages try_recv will return, oldest first.
RECURSIVE DrainMidi(_, _, _)
DrainMidi(acc, q, msgs) ==
    IF acc.panicked \/ q = <<>> THEN acc
    ELSE DrainMidi(ToEveryNode(acc, msgs[Head(q)], Head(q), 1), Tail(q), msgs)

\* A lagging receiver's try_recv returns Err(Lagged) once, which ends the
\* loop, and moves on to the oldest value the channel still holds.
receive_midi_messages(ns, rx, msgs) ==
    IF rx.lagged
    THEN [panicked |-> FALSE, nodes |-> ns, delivered |-> <<>>,
          rx |-> [rx EXCEPT !.lagged = FALSE]]
    ELSE LET r == DrainMidi([panicked |-> FALSE, nodes |-> ns, delivered |-> <<>>],
                            rx.buf, msgs)
         IN  [panicked |-> r.panicked, nodes |-> r.nodes, delivered |-> r.delivered,
              rx |-> [rx EXCEPT !.buf = <<>>]]

\* One ControlMessage {instrument_id, channel, note, velocity}.
deliver_control_message(acc, msg) ==
    LET node_id == msg.instrument_id
    IN  IF node_id < Len(acc.nodes)
        THEN LET message ==
                    IF msg.velocity > 0
                    THEN Message(NoteOn(msg.note, msg.velocity), msg.channel)
                    ELSE Message(NoteOff(msg.note, 0), msg.channel)
                 r == receive_midi_message(acc.nodes[node_id + 1], message)
             IN  [panicked |-> r.panicked,
                  nodes |-> [acc.nodes EXCEPT ![node_id + 1] = r.node]]
        ELSE acc

\* One ControlMessage {instrument_id, midi_msg}, as the sequencer node sends
\* it: the message goes to the node it names as it is.
forward_control_message(acc, msg) ==
    LET node_id == msg.instrument_id
    IN  IF node_id < Len(acc.nodes)
        THEN LET r == receive_midi_message(acc.nodes[node_id + 1], msg.midi_msg)
             IN  [panicked |-> r.panicked,
                  nodes |-> [acc.nodes EXCEPT ![node_id + 1] = r.node]]
        ELSE acc

RECURSIVE receive_drum_machine_messages(_, _)
receive_drum_machine_messages(acc, q) ==
    IF acc.panicked \/ q = <<>> THEN acc
    ELSE receive_drum_machine_messages(
             IF "midi_msg" \in DOMAIN Head(q)
             THEN forward_control_message(acc, Head(q))
             ELSE deliver_control_message(acc, Head(q)),
             Tail(q))

\* The sequencer node's produce_noise: NoteOn, then NoteOn with velocity 0.
node_produce_noise(instrument_id, channel, note, velocity) ==
    <<[instrument_id |-> instrument_id,
       midi_msg |-> Message(NoteOn(note, velocity), channel)],
      [instrument_id |-> instrument_id,
       midi_msg |-> Message(NoteOn(note, 0), channel)]>>

\* What a voice of the sequencer can be set to.
HitTargets == {0, MaxMidiNodes}
HitChannels == {9, 16}
HitNotes == {60, 200}
HitVelocities == {127}

MidiInit ==
    /\ mnodes \in MidiGraphs
    /\ midi_rx = [buf |-> <<>>, lagged |-> FALSE]
    /\ dm_ctr_rx = <<>>
    /\ midi_in = None
    /\ midi_sent = <<>>
    /\ delivered = <<>>
    /\ nmidi = 0
    /\ nhits = 0
    /\ hits = <<>>
    /\ heard = <<>>
    /\ dead = {}

\* The callback connect_midi_in_to_port registers, called with one buffer.
MidiIn(bytes) ==
    /\ "reader" \notin dead
    /\ nmidi + nhits < MaxMidiMsgs
    /\ midi_in' = Some(bytes)
    /\ nmidi' = nmidi + 1
    /\ LET r == decode(bytes)
       IN  /\ dead' = IF r.panicked THEN dead \cup {"reader"} ELSE dead
           /\ IF ~r.panicked /\ IsSome(r.value)
              THEN /\ midi_sent' = Append(midi_sent, Unwrap(r.value))
                   /\ midi_rx' = broadcast_send(midi_rx, Len(midi_sent) + 1)
              ELSE UNCHANGED <<midi_sent, midi_rx>>
    /\ UNCHANGED <<mnodes, dm_ctr_rx, delivered, nhits, hits, heard>>
    /\ UNCHANGED <<graphVars, audioVars, drumVars, cycleVars, beatVars, unitVars>>

\* produce_noise has sent every message of the hits made so far.
HitsSent == \A h \in 1..Len(hits) : hits[h].sent = Len(hits[h].msgs)

\* DrumMachine::beat_tick finds a set slot of a voice with a target:
\* produce_noise is called and its first sender.send(..).await completes.
DmHit(instrument_id, channel, note, velocity) ==
    /\ nmidi + nhits < MaxMidiMsgs
    /\ nhits < MaxHits
    /\ HitsSent
    /\ nhits' = nhits + 1
    /\ \E msgs \in {produce_noise(instrument_id, channel, note, velocity)} :
           /\ hits' = Append(hits, [msgs |-> msgs, sent |-> 1])
           /\ dm_ctr_rx' = Append(dm_ctr_rx, msgs[1])
    /\ UNCHANGED <<mnodes, midi_rx, midi_in, midi_sent, delivered, nmidi, heard, dead>>
    /\ UNCHANGED <<graphVars, audioVars, drumVars, cycleVars, beatVars, unitVars>>

\* The same hit of the sequencer node (src/control/node/drum_machine.rs).
NodeHit(instrument_id, channel, note, velocity) ==
    /\ nmidi + nhits < MaxMidiMsgs
    /\ nhits < MaxHits
    /\ HitsSent
    /\ nhits' = nhits + 1
    /\ \E msgs \in {node_produce_noise(instrument_id, channel, note, velocity)} :
           /\ hits' = Append(hits, [msgs |-> msgs, sent |-> 1])
           /\ dm_ctr_rx' = Append(dm_ctr_rx, msgs[1])
    /\ UNCHANGED <<mnodes, midi_rx, midi_in, midi_sent, delivered, nmidi, heard, dead>>
    /\ UNCHANGED <<graphVars, audioVars, drumVars, cycleVars, beatVars, unitVars>>

\* produce_noise goes on: its next sender.send(..).await completes.
HitRest ==
    /\ ~HitsSent
    /\ LET h == Len(hits)
       IN  /\ dm_ctr_rx' = Append(dm_ctr_rx, hits[h].msgs[hits[h].sent + 1])
           /\ hits' = [hits EXCEPT ![h].sent = @ + 1]
    /\ UNCHANGED <<mnodes, midi_rx, midi_in, midi_sent, delivered, nmidi, nhits,
                   heard, dead>>
    /\ UNCHANGED <<graphVars, audioVars, drumVars, cycleVars, beatVars, unitVars>>

\* The message receive_drum_machine_messages hands to the node for msg.
AsDelivered(msg) ==
    IF "midi_msg" \in DOMAIN msg THEN msg.midi_msg
    ELSE IF msg.velocity > 0 THEN Message(NoteOn(msg.note, msg.velocity), msg.channel)
    ELSE Message(NoteOff(msg.note, 0), msg.channel)

\* The calls of receive_midi_message that receive_drum_machine_messages
\* makes for the queue q, in order; a call that panics is the last.
RECURSIVE ControlCalls(_, _)
ControlCalls(acc, q) ==
    IF acc.panicked \/ q = <<>> THEN <<>>
    ELSE LET msg == Head(q)
             call == IF msg.instrument_id < Len(acc.nodes)
                     THEN <<[from |-> "sequencer", node |-> msg.instrument_id,
                             message |-> AsDelivered(msg)]>>
                     ELSE <<>>
         IN  call \o ControlCalls(receive_drum_machine_messages(acc, <<msg>>), Tail(q))

\* The calls receive_midi_messages made, from its record of deliveries.
MidiCalls(d, msgs) ==
    [j \in 1..Len(d) |-> [from |-> "port", node |-> d[j][2] - 1,
                          message |-> msgs[d[j][1]]]]

\* Renderer::update with no request waiting: receive_midi_messages, then
\* receive_drum_machine_messages.  A panic ends the renderer task.
update ==
    /\ "renderer" \notin dead
    /\ req_rx = <<>>
    /\ LET a == receive_midi_messages(mnodes, midi_rx, midi_sent)
           b == receive_drum_machine_messages(
                    [panicked |-> a.panicked, nodes |-> a.nodes], dm_ctr_rx)
       IN  /\ mnodes' = b.nodes
           /\ midi_rx' = a.rx
           /\ delivered' = delivered \o a.delivered
           /\ dm_ctr_rx' = IF a.panicked THEN dm_ctr_rx ELSE <<>>
           /\ heard' = heard \o MidiCalls(a.delivered, midi_sent)
                          \o ControlCalls([panicked |-> a.panicked, nodes |-> a.nodes],
                                          dm_ctr_rx)
           /\ dead' = IF b.panicked THEN dead \cup {"renderer"} ELSE dead
    /\ UNCHANGED <<midi_in, midi_sent, nmidi, nhits, hits>>
    /\ UNCHANGED <<graphVars, audioVars, drumVars, cycleVars, beatVars, unitVars>>

\* ------------------------------------------------------------------------
\* One renderer cycle (render/mod.rs): run_renderer calls Renderer::render
\* once per block, and render drains the requests, the MIDI channel and the
\* sequencer's messages before it mixes the block.  Here a node is kept as
\* the pair of its request-side fields (nodes) and its MIDI-side fields
\* (mnodes), at the same index of both lists.
\* ------------------------------------------------------------------------
Call(op, arg) == [op |-> op, arg |-> arg]

\* The MIDI-side fields of a freshly constructed node, and of a node after a
\* request has changed its request-side fields.
NewMidiView == [LoadedNode EXCEPT !.synth = None]

MidiView(n, m) ==
    [m EXCEPT !.enabled = n.enabled,
              !.midi_filter.enabled = n.midi_filter.enabled,
              !.transposition = n.transposition,
              !.global_transposition = n.global_transposition,
              !.ignore_global_transposition = n.ignore_global_transposition]

\* Dropping a node: its stored callback is dropped, its thread detached.
DropNode(st, n) ==
    [st EXCEPT !.closed = IF IsSome(n.sf_load_res_cb)
                          THEN @ \cup {Unwrap(n.sf_load_res_cb).responder}
                          ELSE @,
               !.jobs = IF IsSome(n.sf_load_handle)
                        THEN [@ EXCEPT ![Unwrap(n.sf_load_handle)].detached = TRUE]
                        ELSE @]

mod_node_request(st, id, kind, responder) ==
    IF id >= Len(st.nodes)
    THEN [st EXCEPT !.responses = respond(@, responder, Resp("InvalidId"))]
    ELSE LET r == NodeProcessRequest(st.nodes[id + 1].node, kind,
                                     [responder |-> responder, id |-> id],
                                     Len(st.jobs) + 1)
             detached == IF IsSome(r.detached)
                         THEN [st.jobs EXCEPT ![Unwrap(r.detached)].detached = TRUE]
                         ELSE st.jobs
         IN  [st EXCEPT
                !.nodes[id + 1].node = r.node,
                !.mnodes[id + 1] = MidiView(r.node, @),
                !.responses = IF IsSome(r.resp)
                              THEN respond(@, responder, NodeResponse(id, Unwrap(r.resp)))
                              ELSE @,
                !.closed = IF IsSome(r.dropped)
                           THEN @ \cup {Unwrap(r.dropped).responder}
                           ELSE @,
                !.jobs = IF r.spawned THEN Append(detached, SpawnedJob(r.node))
                         ELSE detached]

mod_add_node(st, kind, responder) ==
    IF kind \notin RegisteredKinds
    THEN [st EXCEPT !.responses = respond(@, responder, Resp("InvalidNodeKind"))]
    ELSE [st EXCEPT
            !.nodes = add_node(@, kind, DefaultNode),
            !.mnodes = Append(@, MidiView(add_node(<<>>, kind, DefaultNode)[1].node,
                                          NewMidiView)),
            !.responses = respond(@, responder,
                                  [kind |-> "AddNode", id |-> Len(st.nodes),
                                   node_kind |-> kind,
                                   instance |-> serialize(DefaultNode)])]

mod_remove_node(st, id, responder) ==
    IF id >= Len(st.nodes)
    THEN [st EXCEPT !.responses = respond(@, responder, Resp("InvalidId"))]
    ELSE [DropNode(st, st.nodes[id + 1].node) EXCEPT
            !.nodes = RemoveAt(@, id + 1),
            !.mnodes = RemoveAt(@, id + 1),
            !.responses = respond(@, responder, [kind |-> "RemoveNode", id |-> id])]

mod_clone_node(st, id, responder) ==
    IF id >= Len(st.nodes)
    THEN [st EXCEPT !.responses = respond(@, responder, Resp("InvalidId"))]
    ELSE LET c == CloneOf(st.nodes[id + 1].node, Len(st.jobs) + 1)
         IN  [st EXCEPT
                !.nodes = add_node(@, st.nodes[id + 1].kind, c.node),
                !.mnodes = Append(@, [st.mnodes[id + 1] EXCEPT !.synth = None]),
                !.jobs = IF c.ok THEN Append(@, SpawnedJob(c.node)) ELSE @,
                !.responses = respond(@, responder, [kind |-> "CloneNode", id |-> id])]

\* RequestKind::MoveNode { id, new_id } => todo!(): the call panics, and the
\* responder it owns is dropped unanswered as the stack unwinds.
mod_move_node(st, id, new_id, responder) ==
    [st EXCEPT !.panicked = TRUE, !.closed = @ \cup {responder}]

\* Renderer::process_request of render/mod.rs.
mod_process_request(st, item) ==
    LET req == item.req
        responder == item.responder
        st1 == [st EXCEPT !.last = Some(item),
                          !.log = Append(@, Call("process_request", req.kind))]
    IN  CASE req.kind = "NodeRequest" -> mod_node_request(st1, req.id, req.req, responder)
          [] req.kind = "AddNode" -> mod_add_node(st1, req.node_kind, responder)
          [] req.kind = "RemoveNode" -> mod_remove_node(st1, req.id, responder)
          [] req.kind = "CloneNode" -> mod_clone_node(st1, req.id, responder)
          [] req.kind = "MoveNode" -> mod_move_node(st1, req.id, req.new_id, responder)

\* while let Ok((kind, responder)) = self.req_rx.try_recv()
RECURSIVE mod_receive_requests(_)
mod_receive_requests(st) ==
    IF st.panicked \/ st.q = <<>> THEN st
    ELSE mod_receive_requests(mod_process_request([st EXCEPT !.q = Tail(@)], Head(st.q)))

mod_receive_midi_messages(st, msgs) ==
    IF st.panicked THEN st
    ELSE
    LET r == receive_midi_messages(st.mnodes, st.rx, msgs)
    IN  [st EXCEPT !.panicked = r.panicked, !.mnodes = r.nodes, !.rx = r.rx,
                   !.delivered = @ \o r.delivered,
                   !.log = @ \o [i \in 1..Len(r.delivered) |->
                                   Call("receive_midi_message", r.delivered[i])]]

mod_receive_drum_machine_messages(st) ==
    IF st.panicked THEN st
    ELSE
    LET r == receive_drum_machine_messages([panicked |-> FALSE, nodes |-> st.mnodes],
                                           st.dmq)
    IN  [st EXCEPT !.panicked = r.panicked, !.mnodes = r.nodes, !.dmq = <<>>,
                   !.log = @ \o [i \in 1..Len(st.dmq) |->
                                   Call("control_message", st.dmq[i].instrument_id)]]

\* render_audio appending to whatever the block held.
mod_render_audio_no_fill(st) ==
    IF st.panicked THEN st
    ELSE
    LET ns == st.nodes
        res == [i \in 1..Len(ns) |-> handle_sf_load(ns[i].node, st.jobs)]
        CalledFor(r) == {i \in 1..Len(ns) :
                           IsSome(res[i].called) /\ Unwrap(res[i].called).responder = r}
        JoinedBy(j) == {i \in 1..Len(ns) :
                           /\ sf_load_finished(ns[i].node, st.jobs)
                           /\ Unwrap(ns[i].node.sf_load_handle) = j}
    IN  [st EXCEPT
           !.nodes = [i \in 1..Len(ns) |-> [ns[i] EXCEPT !.node = res[i].node]],
           !.mnodes = [i \in 1..Len(ns) |->
                         IF res[i].node.synth /= ns[i].node.synth
                         THEN [st.mnodes[i] EXCEPT !.synth = Some(<<>>)]
                         ELSE st.mnodes[i]],
           !.responses =
               [r \in DOMAIN st.responses |->
                  IF CalledFor(r) /= {}
                  THEN LET i == CHOOSE i \in CalledFor(r) : TRUE
                       IN  Append(st.responses[r],
                                  NodeResponse(Unwrap(res[i].called).id, res[i].with))
                  ELSE st.responses[r]],
           !.jobs = [j \in 1..Len(st.jobs) |->
                       IF JoinedBy(j) /= {} THEN [st.jobs[j] EXCEPT !.joined = TRUE]
                       ELSE st.jobs[j]],
           !.mix = @ \o [i \in 1..Len(ns) |->
                           [pos |-> i, kind |-> ns[i].kind, engine |-> res[i].node.synth]],
           !.log = @ \o [i \in 1..Len(ns) |-> Call("render_additive", i)]]

\* lbuf.fill(0.0); rbuf.fill(0.0); then every node's render_additive, which
\* polls the node's load thread (update) and adds the node's block.
mod_render_audio(st) ==
    IF st.panicked THEN st
    ELSE mod_render_audio_no_fill([st EXCEPT !.mix = <<>>,
                                             !.log = Append(@, Call("fill", 0))])

CycleInit ==
    /\ mix = <<>>
    /\ cycle = <<>>

\* The renderer, its channels and the block as Renderer::render finds them.
RendererState ==
    [panicked |-> FALSE, nodes |-> nodes, mnodes |-> mnodes,
     responses |-> responses, closed |-> closed, jobs |-> jobs,
     last |-> last, q |-> req_rx, rx |-> midi_rx, dmq |-> dm_ctr_rx,
     delivered |-> delivered, mix |-> mix, log |-> <<>>]

\* The four calls of Renderer::render, in its order; each is skipped once a
\* call before it has panicked.
mod_render(st, msgs) ==
    mod_render_audio(
        mod_receive_drum_machine_messages(
            mod_receive_midi_messages(mod_receive_requests(st), msgs)))

\* One iteration of run_renderer's loop: Renderer::render of render/mod.rs.
\* A panic in any of its calls ends the renderer task where it stands.
Renderer_render ==
    /\ "renderer" \notin dead
    /\ \E d \in {mod_render(RendererState, midi_sent)} :
           /\ nodes' = d.nodes
           /\ mnodes' = d.mnodes
           /\ responses' = d.responses
           /\ closed' = d.closed
           /\ jobs' = d.jobs
           /\ last' = d.last
           /\ req_rx' = d.q
           /\ midi_rx' = d.rx
           /\ dm_ctr_rx' = d.dmq
           /\ delivered' = d.delivered
           /\ mix' = d.mix
           /\ cycle' = d.log
           /\ dead' = IF d.panicked THEN dead \cup {"renderer"} ELSE dead
    /\ UNCHANGED <<nreq, updates, midi_in, midi_sent, nmidi, nhits, hits, heard>>
    /\ UNCHANGED <<audioVars, drumVars, beatVars, unitVars>>

\* What the clients and the ports send in the runs of the cycle.
CycleRequests ==
    {[kind |-> "AddNode", node_kind |-> "OxiSynth"],
     [kind |-> "RemoveNode", id |-> 0],
     [kind |-> "CloneNode", id |-> 0],
     [kind |-> "MoveNode", id |-> 0, new_id |-> 1],
     [kind |-> "NodeRequest", id |-> 0, req |-> [kind |-> "LoadFile", arg |-> GoodPath]]}
CycleBuffers == {<<144, 60, 100>>}

\* A client's request, as Submit, in a run of at most MaxCycleReqs requests.
CycleSubmit(req) ==
    /\ nreq < MaxCycleReqs
    /\ Submit(req)

\* ------------------------------------------------------------------------
\* The clients' request handlers (main.rs 192-202).  Every connection has a
\* task of its own on the multi-threaded runtime; the task of a renderer
\* request awaits the response, locks the cache, caches the response and
\* broadcasts it to every connection.  Each request of a run comes from a
\* connection of its own, so the handlers of answered requests run in any
\* order.  A handler whose responder was dropped answers Nak and
\* broadcasts nothing.
\* ------------------------------------------------------------------------
\* The requests of the connections.
ObserveRequests ==
    {[kind |-> "AddNode", node_kind |-> "OxiSynth"],
     [kind |-> "AddNode", node_kind |-> "FluidliteSynth"],
     [kind |-> "RemoveNode", id |-> 0],
     [kind |-> "CloneNode", id |-> 0],
     [kind |-> "MoveNode", id |-> 0, new_id |-> 1],
     [kind |-> "NodeRequest", id |-> 1, req |-> [kind |-> "SetEnabled", arg |-> FALSE]]}

ObserveSubmit(req) ==
    /\ nreq < MaxCycleReqs
    /\ Len(req_rx) < QueueCap
    /\ nreq' = nreq + 1
    /\ req_rx' = Append(req_rx, [req |-> req, responder |-> nreq + 1])
    /\ UNCHANGED <<nodes, responses, closed, updates, jobs, last>>
    /\ UNCHANGED <<audioVars, drumVars, midiVars, cycleVars, beatVars, unitVars>>

\* The responders whose response has been broadcast.
Broadcast == {updates[i].responder : i \in 1..Len(updates)}

\* The handler of the request with responder r broadcasts the response.
HandlerBroadcast(r) ==
    /\ responses[r] /= <<>>
    /\ r \notin Broadcast
    /\ updates' = Append(updates, [kind |-> "RendererResponse", responder |-> r,
                                   res |-> responses[r][1]])
    /\ UNCHANGED <<nodes, req_rx, nreq, responses, closed, jobs, last>>
    /\ UNCHANGED <<audioVars, drumVars, midiVars, cycleVars, beatVars, unitVars>>

\* ------------------------------------------------------------------------
\* The scheduler and the renderer together (main.rs 103-144): the control
\* messages of a beat-tick go into the channel the renderer drains.  Nothing
\* in src/ calls Voices::reindex_instruments or tells the scheduler of a
\* change of the graph.
\* ------------------------------------------------------------------------
TargetGraphRequests ==
    {[kind |-> "AddNode", node_kind |-> "OxiSynth"],
     [kind |-> "AddNode", node_kind |-> "FluidliteSynth"],
     [kind |-> "RemoveNode", id |-> 0]}

\* The nodes a voice is aimed at, by index.
TargetIndices == {0, 1}

\* The scheduler has handled every command of the voice's set-up.
VoiceIsSetUp == dm_nreq = 3 /\ dm_req_rx = <<>>

\* The clients of the render graph: one adds an OxiSynth node and then a
\* FluidliteSynth node; once the voice is set up, one sends a third request.
TargetSubmit(req) ==
    /\ nreq < 3
    /\ CASE nreq = 0 -> req = [kind |-> "AddNode", node_kind |-> "OxiSynth"]
          [] nreq = 1 -> req = [kind |-> "AddNode", node_kind |-> "FluidliteSynth"]
          [] nreq = 2 -> VoiceIsSetUp
    /\ Len(req_rx) < QueueCap
    /\ nreq' = nreq + 1
    /\ req_rx' = Append(req_rx, [req |-> req, responder |-> nreq + 1])
    /\ UNCHANGED <<nodes, responses, closed, updates, jobs, last>>
    /\ UNCHANGED <<audioVars, drumVars, midiVars, cycleVars, beatVars, unitVars>>

\* The client of the scheduler: it adds one voice, sets the voice's first
\* slot and, when the graph is [OxiSynth, FluidliteSynth] with no request
\* waiting, gives the voice a target.
VoiceSetup(target) ==
    /\ dm_nreq < 3
    /\ IF dm_nreq = 2
       THEN /\ [i \in 1..Len(nodes) |-> nodes[i].kind] = <<"OxiSynth", "FluidliteSynth">>
            /\ req_rx = <<>>
       ELSE TRUE
    /\ Len(dm_req_rx) < DmQueueCap
    /\ dm_nreq' = dm_nreq + 1
    /\ dm_req_rx' = Append(dm_req_rx,
                           CASE dm_nreq = 0 -> [kind |-> "AddVoice", arg |-> 0]
                             [] dm_nreq = 1 -> [kind |-> "SetSlot", arg |-> <<0, 0, TRUE>>]
                             [] dm_nreq = 2 -> [kind |-> "SetVoiceInstrument",
                                                arg |-> <<0, Some(target)>>])
    /\ UNCHANGED <<overflow_checks, dm, now, sent, fired, results, snaps>>
    /\ UNCHANGED <<graphVars, audioVars, midiVars, cycleVars, beatVars, unitVars>>

\* DrumMachine::tick, called at time `now`, with the channel of its sends.
TickSend ==
    /\ ~dm.panicked
    /\ LET a == receive_requests([dm |-> dm, results |-> <<>>, snaps |-> snaps],
                                 dm_req_rx, now, overflow_checks)
           d == a.dm
           due == /\ ~d.panicked
                  /\ d.enabled
                  /\ FGe(FSub(timestamp(now), d.last_time), period(d))
           adv == advance_div(d, overflow_checks)
           msgs == IF due THEN beat_tick(d, d.current_beat, d.current_div) ELSE <<>>
       IN  /\ dm' = IF ~due THEN d
                    ELSE IF adv.panicked THEN adv
                    ELSE [adv EXCEPT !.last_time = FAdd(@, period(d))]
           /\ sent' = msgs
           /\ dm_ctr_rx' = dm_ctr_rx \o msgs
           /\ fired' = IF due
                       THEN Some([beat |-> d.current_beat, div |-> d.current_div,
                                  rhythm |-> d.rhythm])
                       ELSE None
           /\ results' = a.results
           /\ snaps' = a.snaps
    /\ dm_req_rx' = <<>>
    /\ UNCHANGED <<overflow_checks, dm_nreq, now>>
    /\ UNCHANGED <<mnodes, midi_rx, midi_in, midi_sent, delivered, nmidi, nhits, hits,
                   heard, dead>>
    /\ UNCHANGED <<graphVars, audioVars, cycleVars, beatVars, unitVars>>

\* ------------------------------------------------------------------------
\* The scheduler's tick loop against the clock (main.rs 110-115):
\*   loop { drum_machine.tick().await; sleep(period().min(0.01)).await; }
\* ------------------------------------------------------------------------
\* f32::min of the period and the longest sleep, in whole time units.
SleepTime(d) ==
    LET p == period(d)
    IN  IF p.k = "fin" /\ p.v < SampleGap THEN p.v ELSE SampleGap

\* Whether the requests q restart the count of beat-ticks: a reset that no
\* change of tempo or rhythm follows.
StartsEpoch(q) ==
    \E i \in 1..Len(q) :
        /\ q[i].kind = "Reset" \/ (q[i].kind = "SetEnabled" /\ q[i].arg)
        /\ \A j \in (i + 1)..Len(q) : q[j].kind \notin {"SetTempoBpm", "SetRhythm"}

EndsEpoch(q) == \E i \in 1..Len(q) : q[i].kind \in {"SetTempoBpm", "SetRhythm"}

\* One pass of the loop's first half: tick is called at time `now`.
LoopTick ==
    /\ TickStep
    /\ ticked_at' = Some(now)
    /\ epoch' =
          LET n == IF IsSome(fired') THEN 1 ELSE 0
          IN  IF dm'.panicked \/ ~dm'.enabled THEN None
              ELSE IF StartsEpoch(dm_req_rx) THEN Some([at |-> now, n |-> n])
              ELSE IF EndsEpoch(dm_req_rx) \/ epoch = None THEN None
              ELSE Some([at |-> Unwrap(epoch).at, n |-> Unwrap(epoch).n + n])

\* The loop's second half: one unit of the sleep passes; the next call of
\* tick comes no later than the sleep allows.
LoopSleep ==
    /\ now < MaxBeatTime
    /\ IsSome(ticked_at)
    /\ now + 1 - Unwrap(ticked_at) <= SleepTime(dm)
    /\ now' = now + 1
    /\ UNCHANGED <<overflow_checks, dm, dm_req_rx, dm_nreq, sent, fired, results, snaps>>
    /\ UNCHANGED <<graphVars, audioVars, midiVars, cycleVars, beatVars, unitVars>>

\* What a client asks of the scheduler while the loop runs.
BeatRequests ==
    {[kind |-> "Reset", arg |-> 0],
     [kind |-> "SetEnabled", arg |-> TRUE],
     [kind |-> "SetEnabled", arg |-> FALSE],
     [kind |-> "SetTempoBpm", arg |-> 180],
     [kind |-> "SetRhythm", arg |-> Rhythm(2, 2)]}

\* ------------------------------------------------------------------------
\* One synth node, its filter and its transposition under requests, and the
\* messages handed to it (src/render/midi_filter.rs, src/render/node/oxi_synth.rs)
\* ------------------------------------------------------------------------
FOk(f) == [ok |-> TRUE, filter |-> f]
FErr(f) == [ok |-> FALSE, filter |-> f]

ur_set_channel(f, channel, flag) ==
    IF channel < NUM_CHANNELS THEN FOk([f EXCEPT !.channels[channel] = flag]) ELSE FErr(f)

ur_set_note(f, note, flag) ==
    IF note < NUM_NOTES THEN FOk([f EXCEPT !.notes[note] = flag]) ELSE FErr(f)

ur_set_cc(f, cc, flag) ==
    IF cc < NUM_CONTROL_COMMANDS THEN FOk([f EXCEPT !.control_commands[cc] = flag])
    ELSE FErr(f)

\* MidiFilterUser::process_update_request, for the updates of one flag.
process_update_request(f, kind) ==
    CASE kind.kind = "Enabled" -> FOk([f EXCEPT !.enabled = kind.arg])
      [] kind.kind = "Channel" -> ur_set_channel(f, kind.arg[1], kind.arg[2])
      [] kind.kind = "Note" -> ur_set_note(f, kind.arg[1], kind.arg[2])
      [] kind.kind = "ControlChange" -> ur_set_cc(f, kind.arg[1], kind.arg[2])
      [] kind.kind = "ProgramChange" -> FOk([f EXCEPT !.program_change = kind.arg])
      [] kind.kind = "ChannelAftertouch" -> FOk([f EXCEPT !.channel_aftertouch = kind.arg])
      [] kind.kind = "PitchWheel" -> FOk([f EXCEPT !.pitch_wheel = kind.arg])

\* The filter updates a client sends: every flag a message below is checked
\* against, and indices one past the arrays.
EnabledUpdates == {[kind |-> "Enabled", arg |-> b] : b \in BOOLEAN}

FilterUpdates ==
    EnabledUpdates
    \cup {[kind |-> "Channel", arg |-> <<c, b>>] : c \in {0, NUM_CHANNELS}, b \in BOOLEAN}
    \cup {[kind |-> "Note", arg |-> <<k, b>>] : k \in {60, NUM_NOTES}, b \in BOOLEAN}
    \cup {[kind |-> "ControlChange", arg |-> <<7, b>>] : b \in BOOLEAN}
    \cup {[kind |-> k, arg |-> b] :
             k \in {"ProgramChange", "ChannelAftertouch", "PitchWheel"}, b \in BOOLEAN}

\* The messages handed to the node: one of each kind on channel 0, notes
\* with and without a filter update above, and a NoteOff on another channel.
NoteMessages ==
    {Message(NoteOn(k, 100), 0) : k \in {0, 60, 250}}
    \cup {Message(NoteOff(k, 0), 0) : k \in {0, 60, 250}}

ProbeMessages ==
    {Message(NoteOn(60, 100), 0), Message(NoteOn(61, 100), 0),
     Message(NoteOn(60, 100), 1), Message(NoteOn(200, 100), 0),
     Message(NoteOff(60, 0), 0), Message(NoteOff(200, 0), 1),
     Message(NoteOff(60, 0), 16),
     Message(PolyphonicAftertouch(60, 5), 0),
     Message(ControlChange([number |-> 7], 3), 0),
     Message(ProgramChange(1), 0),
     Message(ChannelAftertouch(2), 0),
     Message(PitchWheel(100), 0)}

\* The transpositions a client sets (i8).
Transpositions == {-128, 0, 12, 127}
GlobalTranspositions == {-128, 0, 127}

\* The node as constructed, once its first sound font has loaded.
UnitInit ==
    /\ unit = LoadedNode
    /\ probe = None

\* A panic in receive_midi_message ends the renderer, and the node with it.
UnitAlive == ~(IsSome(probe) /\ Unwrap(probe).panicked)

\* UpdateMidiFilter(kind)
UnitFilterUpdate(kind) ==
    /\ UnitAlive
    /\ unit' = [unit EXCEPT !.midi_filter = process_update_request(@, kind).filter]
    /\ UNCHANGED probe
    /\ UNCHANGED <<graphVars, audioVars, drumVars, midiVars, cycleVars, beatVars>>

\* SetTransposition(t)
UnitSetTransposition(t) ==
    /\ UnitAlive
    /\ unit' = [unit EXCEPT !.transposition = t]
    /\ UNCHANGED probe
    /\ UNCHANGED <<graphVars, audioVars, drumVars, midiVars, cycleVars, beatVars>>

\* Node::set_global_transposition
UnitSetGlobalTransposition(t) ==
    /\ UnitAlive
    /\ unit' = [unit EXCEPT !.global_transposition = t]
    /\ UNCHANGED probe
    /\ UNCHANGED <<graphVars, audioVars, drumVars, midiVars, cycleVars, beatVars>>

\* SetIgnoreGlobalTransposition(flag)
UnitSetIgnoreGlobal(flag) ==
    /\ UnitAlive
    /\ unit' = [unit EXCEPT !.ignore_global_transposition = flag]
    /\ UNCHANGED probe
    /\ UNCHANGED <<graphVars, audioVars, drumVars, midiVars, cycleVars, beatVars>>

\* SetEnabled(flag)
UnitSetEnabled(flag) ==
    /\ UnitAlive
    /\ unit' = [unit EXCEPT !.enabled = flag]
    /\ UNCHANGED probe
    /\ UNCHANGED <<graphVars, audioVars, drumVars, midiVars, cycleVars, beatVars>>

\* The engine keeps the events of at most this many messages.
MaxEvents == 2

\* One key pressed and released, and the filter updates that matter to it.
PlayedMessages == {Message(NoteOn(60, 100), 0), Message(NoteOff(60, 0), 0)}
PlayedFilterUpdates ==
    EnabledUpdates \cup {[kind |-> "Channel", arg |-> <<0, b>>] : b \in BOOLEAN}

\* Node::receive_midi_message(message), the engine keeping what it was sent.
UnitPlay(message) ==
    /\ UnitAlive
    /\ IsSome(unit.synth)
    /\ Len(Unwrap(unit.synth)) < MaxEvents
    /\ \E r \in {receive_midi_message(unit, message)} :
           /\ unit' = r.node
           /\ probe' = Some([message |-> message,
                             pass |-> does_pass(unit.midi_filter, message),
                             panicked |-> r.panicked])
    /\ UNCHANGED <<graphVars, audioVars, drumVars, midiVars, cycleVars, beatVars>>

\* ------------------------------------------------------------------------
\* Rendering one block (src/render/node/oxi_synth.rs, src/render/mod.rs).
\* A buffer is the sequence of its samples; the engine writes
\* EngineOutput.left into every sample of the left slice it is given and
\* EngineOutput.right into every sample of the right one.
\* ------------------------------------------------------------------------
MaxBlock == 3
EngineOutput == [left |-> 1, right |-> 2]

\* Vec::resize(new_len, 0.0)
vec_resize(v, new_len) ==
    IF new_len <= Len(v) THEN SubSeq(v, 1, new_len)
    ELSE v \o [i \in 1..(new_len - Len(v)) |-> 0]

\* The scratch buffers cut to the block's length whenever it differs.
resize_buffers_to_fit(n, min_size) ==
    [n EXCEPT !.tmp_lbuf = vec_resize(@, min_size), !.tmp_rbuf = vec_resize(@, min_size)]

resize_buffers(n, min_size) ==
    IF Len(n.tmp_lbuf) < min_size
    THEN [n EXCEPT !.tmp_lbuf = vec_resize(@, min_size),
                   !.tmp_rbuf = vec_resize(@, min_size)]
    ELSE n

\* Synth::write_f32(len, left, 0, 1, right, 0, 1), one side of it
write_f32(len, buf, sample) == [i \in 1..Len(buf) |-> IF i <= len THEN sample ELSE buf[i]]

amplify_buffer(buffer, gain) ==
    IF gain /= 1 THEN [i \in 1..Len(buffer) |-> buffer[i] * gain] ELSE buffer

add_buf_to_buf(buffer, tmp_buffer) ==
    LET len == Min(Len(buffer), Len(tmp_buffer))
    IN  [i \in 1..Len(buffer) |-> IF i <= len THEN buffer[i] + tmp_buffer[i] ELSE buffer[i]]

\* The node and the two output buffers afterwards, and whether a slice
\* expression panicked.  self.update() finds no load to poll in this node.
render_additive(n, lbuf, rbuf) ==
    LET len == Min(Len(lbuf), Len(rbuf))
        n1 == resize_buffers(n, len)
    IN  IF len > Len(n1.tmp_lbuf) \/ len > Len(n1.tmp_rbuf)
        THEN [panicked |-> TRUE, node |-> n1, lbuf |-> lbuf, rbuf |-> rbuf]
        ELSE
        LET sl == SubSeq(n1.tmp_lbuf, 1, len)
            sr == SubSeq(n1.tmp_rbuf, 1, len)
            wl == IF IsSome(n1.synth) THEN write_f32(len, sl, EngineOutput.left) ELSE sl
            wr == IF IsSome(n1.synth) THEN write_f32(len, sr, EngineOutput.right) ELSE sr
            tmp_lbuf == amplify_buffer(wl, n1.gain)
            tmp_rbuf == amplify_buffer(wr, n1.gain)
        IN  [panicked |-> FALSE,
             node |-> [n1 EXCEPT
                         !.tmp_lbuf = tmp_lbuf \o SubSeq(@, len + 1, Len(@)),
                         !.tmp_rbuf = tmp_rbuf \o SubSeq(@, len + 1, Len(@))],
             lbuf |-> add_buf_to_buf(lbuf, tmp_lbuf),
             rbuf |-> add_buf_to_buf(rbuf, tmp_rbuf)]

\* The output buffers a caller hands in: what the nodes before this one
\* have left in them.
Mixed == {0, 10}
OutputBuffers == UNION {{[i \in 1..len |-> m] : m \in Mixed} : len \in 0..MaxBlock}
Gains == {0, 1, 2}

\* SetGain(gain)
UnitSetGain(gain) ==
    /\ UnitAlive
    /\ unit' = [unit EXCEPT !.gain = gain]
    /\ UNCHANGED probe
    /\ UNCHANGED <<graphVars, audioVars, drumVars, midiVars, cycleVars, beatVars>>

\* Node::render_additive(lbuf, rbuf)
UnitRender(lbuf, rbuf) ==
    /\ UnitAlive
    /\ \E r \in {render_additive(unit, lbuf, rbuf)} :
           /\ unit' = r.node
           /\ probe' = Some([lbuf_in |-> lbuf, rbuf_in |-> rbuf,
                             lbuf |-> r.lbuf, rbuf |-> r.rbuf, panicked |-> r.panicked])
    /\ UNCHANGED <<graphVars, audioVars, drumVars, midiVars, cycleVars, beatVars>>

\* The velocity mappings a client sets (min <= max in each), and the
\* velocities played under them.
VelocityMappings == {Identity, Linear(0, 1), Linear(0, 3), Linear(1, 3), Linear(10, 20)}
Velocities == {0, 1, 60, 63, 64, 70, 90, 126, 127}
VelocityMessages ==
    {Message(NoteOn(60, v), 0) : v \in Velocities} \cup {Message(NoteOff(60, 0), 0)}

\* SetVelocityMapping(mapping)
UnitSetVelocityMapping(mapping) ==
    /\ UnitAlive
    /\ unit' = [unit EXCEPT !.velocity_mapping = mapping]
    /\ UNCHANGED probe
    /\ UNCHANGED <<graphVars, audioVars, drumVars, midiVars, cycleVars, beatVars>>

\* Node::receive_midi_message(message)
UnitReceive(message) ==
    /\ UnitAlive
    /\ \E r \in {receive_midi_message([unit EXCEPT !.synth = Some(<<>>)], message)} :
           /\ unit' = r.node
           /\ probe' = Some([message |-> message,
                             pass |-> does_pass(unit.midi_filter, message),
                             panicked |-> r.panicked])
    /\ UNCHANGED <<graphVars, audioVars, drumVars, midiVars, cycleVars, beatVars>>

BeatInit ==
    /\ ticked_at = None
    /\ epoch = None

Init ==
    /\ GraphInit /\ AudioInit /\ DrumInit /\ MidiInit /\ CycleInit /\ BeatInit
    /\ UnitInit
    /\ overflow_checks /\ mnodes = <<>>

InitDrum ==
    /\ GraphInit /\ AudioInit /\ DrumInit /\ MidiInit /\ CycleInit /\ BeatInit
    /\ UnitInit
    /\ mnodes = <<>>

InitMidi ==
    /\ GraphInit /\ AudioInit /\ DrumInit /\ MidiInit /\ CycleInit /\ BeatInit
    /\ UnitInit
    /\ overflow_checks

Next ==
    \/ \E req \in Requests : Submit(req)
    \/ process_node_request
    \/ process_add_node
    \/ process_remove_node
    \/ process_clone_node
    \/ process_move_node
    \/ render
    \/ process_json_updates
    \/ \E j \in 1..Len(jobs) : JobFinish(j)

Spec == Init /\ [][Next]_vars

\* One node, its preset selection and loads of the three resources.
PresetRequests ==
    {[kind |-> "AddNode", node_kind |-> "OxiSynth"]}
    \cup {[kind |-> "NodeRequest", id |-> 0,
           req |-> [kind |-> "SetBankAndPreset", arg |-> a]] :
              a \in {<<0, 1>>, <<1, 7>>, <<3, 0>>}}
    \cup {[kind |-> "NodeRequest", id |-> 0, req |-> [kind |-> "LoadFile", arg |-> f]] :
              f \in Fonts}

NextPreset ==
    \/ \E req \in PresetRequests : Submit(req)
    \/ process_node_request
    \/ process_add_node
    \/ render
    \/ process_json_updates
    \/ \E j \in 1..Len(jobs) : JobFinish(j)

SpecPreset == Init /\ [][NextPreset]_vars

NextAudio == Callback \/ run_renderer

SpecAudio == Init /\ [][NextAudio]_vars

\* The renderer task and the callback thread both keep running.
SpecAudioFair == SpecAudio /\ WF_vars(run_renderer) /\ WF_vars(Callback)

NextDrum ==
    \/ \E kind \in DmRequests : DmSubmit(kind)
    \/ TimePasses
    \/ tick

SpecDrum == InitDrum /\ [][NextDrum]_vars

NextFilter ==
    \/ \E kind \in FilterUpdates : UnitFilterUpdate(kind)
    \/ \E message \in ProbeMessages : UnitReceive(message)

SpecFilter == Init /\ [][NextFilter]_vars

NextTranspose ==
    \/ \E kind \in EnabledUpdates : UnitFilterUpdate(kind)
    \/ \E t \in Transpositions : UnitSetTransposition(t)
    \/ \E t \in GlobalTranspositions : UnitSetGlobalTransposition(t)
    \/ \E flag \in BOOLEAN : UnitSetIgnoreGlobal(flag)
    \/ \E message \in NoteMessages : UnitReceive(message)

SpecTranspose == Init /\ [][NextTranspose]_vars

\* One node playing a key while its settings change.
NextNotes ==
    \/ \E kind \in PlayedFilterUpdates : UnitFilterUpdate(kind)
    \/ \E t \in Transpositions : UnitSetTransposition(t)
    \/ \E t \in GlobalTranspositions : UnitSetGlobalTransposition(t)
    \/ \E flag \in BOOLEAN : UnitSetIgnoreGlobal(flag)
    \/ \E flag \in BOOLEAN : UnitSetEnabled(flag)
    \/ \E message \in PlayedMessages : UnitPlay(message)

SpecNotes == Init /\ [][NextNotes]_vars

\* One node rendering blocks of varying lengths.
NextScratch ==
    \/ \E gain \in Gains : UnitSetGain(gain)
    \/ \E lbuf, rbuf \in OutputBuffers : UnitRender(lbuf, rbuf)

SpecScratch == Init /\ [][NextScratch]_vars

\* One node under changes of its velocity mapping.
NextVelocity ==
    \/ \E kind \in EnabledUpdates : UnitFilterUpdate(kind)
    \/ \E mapping \in VelocityMappings : UnitSetVelocityMapping(mapping)
    \/ \E message \in VelocityMessages : UnitReceive(message)

SpecVelocity == Init /\ [][NextVelocity]_vars

\* The scheduler under voice commands.
NextVoice ==
    \/ \E kind \in VoiceRequests : DmSubmit(kind)
    \/ TimePasses
    \/ tick

SpecVoice == Init /\ [][NextVoice]_vars

NextMidi ==
    \/ \E bytes \in Buffers : MidiIn(bytes)
    \/ \E i \in HitTargets, c \in HitChannels, k \in HitNotes, v \in HitVelocities :
          DmHit(i, c, k, v)
    \/ \E i \in HitTargets, c \in HitChannels, k \in HitNotes, v \in HitVelocities :
          NodeHit(i, c, k, v)
    \/ HitRest
    \/ update

SpecMidi == InitMidi /\ [][NextMidi]_vars

NextCycle ==
    \/ \E req \in CycleRequests : CycleSubmit(req)
    \/ \E bytes \in CycleBuffers : MidiIn(bytes)
    \/ DmHit(0, 9, 60, 127)
    \/ HitRest
    \/ \E j \in 1..Len(jobs) : JobFinish(j)
    \/ Renderer_render

SpecCycle == Init /\ [][NextCycle]_vars

\* The renderer cycle with the scheduler.
NextTarget ==
    \/ \E req \in TargetGraphRequests : TargetSubmit(req)
    \/ \E target \in TargetIndices : VoiceSetup(target)
    \/ TimePasses
    \/ TickSend
    \/ Renderer_render

SpecTarget == Init /\ [][NextTarget]_vars

\* The renderer cycle with the connections' handlers.
NextObserve ==
    \/ \E req \in ObserveRequests : ObserveSubmit(req)
    \/ Renderer_render
    \/ \E r \in 1..MaxCycleReqs : HandlerBroadcast(r)

SpecObserve == Init /\ [][NextObserve]_vars

NextBeat ==
    \/ \E kind \in BeatRequests : DmSubmit(kind)
    \/ LoopTick
    \/ LoopSleep

SpecBeat == Init /\ [][NextBeat]_vars

\* ------------------------------------------------------------------------
\* Properties of the render graph (checked under Spec)
\* ------------------------------------------------------------------------
\* A step in which process_request handles the request at the head of the
\* queue.
ProcessStep == req_rx /= <<>> /\ req_rx' = Tail(req_rx)

HeadReq == Head(req_rx).req
HeadResponder == Head(req_rx).responder

LastReq == Unwrap(last).req
LastResponder == Unwrap(last).responder

InQueue(r) == \E i \in 1..Len(req_rx) : req_rx[i].responder = r

Held(r) ==
    \E i \in 1..Len(nodes) :
        /\ IsSome(nodes[i].node.sf_load_res_cb)
        /\ Unwrap(nodes[i].node.sf_load_res_cb).responder = r

\* C1: every responder taken from the queue receives exactly one response.
\* At any moment a taken responder has either received its one response, or
\* has received none and is still held by a node that will call it when its
\* load finishes: it is never dropped unanswered and never answered twice.
C1_ExactlyOneResponse ==
    \A r \in 1..nreq :
        ~InQueue(r) =>
            \/ Len(responses[r]) = 1 /\ ~Held(r)
            \/ Len(responses[r]) = 0 /\ Held(r)

InvalidIdRequest(req, len) ==
    \/ req.kind \in {"NodeRequest", "RemoveNode", "CloneNode"} /\ req.id >= len
    \/ req.kind = "MoveNode" /\ (req.id >= len \/ req.new_id >= len)

C3_InvalidNodeKind ==
    [][(ProcessStep /\ HeadReq.kind = "AddNode"
                    /\ HeadReq.node_kind \notin RegisteredKinds) =>
          /\ responses' = [responses EXCEPT ![HeadResponder] = <<Resp("InvalidNodeKind")>>]
          /\ nodes' = nodes
          /\ updates' = updates]_vars

C3_Witness ==
    /\ IsSome(last)
    /\ LastReq.kind = "AddNode"
    /\ LastReq.node_kind \notin RegisteredKinds
    /\ responses[LastResponder] = <<Resp("InvalidNodeKind")>>
    /\ Len(nodes) = 1

\* The configuration a clone takes over from its original.
Configuration(n) ==
    [name |-> n.name, enabled |-> n.enabled, midi_filter |-> n.midi_filter,
     gain |-> n.gain, transposition |-> n.transposition,
     velocity_mapping |-> n.velocity_mapping,
     ignore_global_transposition |-> n.ignore_global_transposition,
     loaded_file |-> n.last_file, bank |-> n.last_bank, preset |-> n.last_preset]

CloneStep == ProcessStep /\ HeadReq.kind = "CloneNode" /\ HeadReq.id < Len(nodes)

\* C9: CloneNode with a valid id appends exactly one node of the same
\* type-name at the end; its configuration equals the original's at clone
\* time, its engine and preset map are absent, and the nodes already in the
\* graph (the original among them) are unchanged.
C9_CloneCopiesConfiguration ==
    [][CloneStep =>
          LET orig == nodes[HeadReq.id + 1]
              copy == nodes'[Len(nodes) + 1]
          IN  /\ Len(nodes') = Len(nodes) + 1
              /\ SubSeq(nodes', 1, Len(nodes)) = nodes
              /\ copy.kind = orig.kind
              /\ Configuration(copy.node) = Configuration(orig.node)
              /\ copy.node.synth = None
              /\ copy.node.preset_map = None]_vars

C9_Witness ==
    /\ IsSome(last)
    /\ LastReq.kind = "CloneNode"
    /\ responses[LastResponder] = <<Resp("Ok")>>
    /\ Len(nodes) = 2
    /\ LastReq.id = 0
    /\ nodes[1].node.name /= DEFAULT_NAME
    /\ IsSome(nodes[1].node.synth)
    /\ nodes[2].node.name = nodes[1].node.name
    /\ nodes[2].node.synth = None

\* C10: cloning a node whose resource has been loaded starts a load job for
\* the clone in the clone operation itself.
C10_CloneStartsLoad ==
    [][(CloneStep /\ IsSome(nodes[HeadReq.id + 1].node.synth)) =>
          IsSome(nodes'[Len(nodes) + 1].node.sf_load_handle)]_vars

\* C15: the position of a node changes only by MoveNode and RemoveNode.
\* AddNode and CloneNode leave every node that was in the graph at its index,
\* a NodeRequest leaves the list as long as it was with every other node
\* untouched and the node it names of the same kind, and a RemoveNode with a
\* valid id takes out exactly the node at id: the nodes before it stay, the
\* nodes after it move down by one.
C15_PositionsStable ==
    [][ProcessStep =>
          /\ HeadReq.kind \in {"AddNode", "CloneNode"} =>
                /\ Len(nodes') >= Len(nodes)
                /\ \A i \in 1..Len(nodes) : nodes'[i] = nodes[i]
          /\ HeadReq.kind = "NodeRequest" =>
                /\ Len(nodes') = Len(nodes)
                /\ \A i \in 1..Len(nodes) :
                      IF i = HeadReq.id + 1 THEN nodes'[i].kind = nodes[i].kind
                      ELSE nodes'[i] = nodes[i]
          /\ (HeadReq.kind = "RemoveNode" /\ HeadReq.id < Len(nodes)) =>
                /\ Len(nodes') = Len(nodes) - 1
                /\ \A i \in 1..HeadReq.id : nodes'[i] = nodes[i]
                /\ \A i \in (HeadReq.id + 1)..Len(nodes') : nodes'[i] = nodes[i + 1]
      ]_vars

\* The node at index 0 has been removed and the renamed node that stood at
\* index 1 is now the only one.
C15_Witness ==
    /\ IsSome(last)
    /\ LastReq.kind = "RemoveNode"
    /\ LastReq.id = 0
    /\ responses[LastResponder] = <<Resp("Ok")>>
    /\ Len(nodes) = 1
    /\ nodes[1].node.name /= DEFAULT_NAME

SupersedeStep ==
    /\ ProcessStep
    /\ HeadReq.kind = "NodeRequest"
    /\ HeadReq.id < Len(nodes)
    /\ HeadReq.req.kind = "LoadFile"
    /\ IsSome(nodes[HeadReq.id + 1].node.sf_load_handle)
    /\ Len(jobs') = Len(jobs) + 1

Superseded == Unwrap(nodes[HeadReq.id + 1].node.sf_load_handle)

\* C19: when a newer load supersedes an older load of the same node that
\* is still in flight, the older thread stays joinable (its handle is kept
\* so that its result is joined, not leaked); and whatever render installs
\* as a node's engine, and whichever callback it calls, belong to the job
\* the node started last, so a superseded job's result is never installed
\* and never reported.
C19_SupersededLoadJoined ==
    [][/\ SupersedeStep =>
             /\ ~jobs'[Superseded].detached
             /\ nodes'[HeadReq.id + 1].node.sf_load_handle = Some(Len(jobs'))
             /\ nodes'[HeadReq.id + 1].node.sf_load_res_cb =
                   Some([responder |-> HeadResponder, id |-> HeadReq.id])
       /\ render =>
             \A i \in 1..Len(nodes) :
                 nodes'[i].node.synth /= nodes[i].node.synth =>
                    /\ IsSome(nodes[i].node.sf_load_handle)
                    /\ ~jobs[Unwrap(nodes[i].node.sf_load_handle)].detached
                    /\ nodes'[i].node.synth =
                          Some([job |-> Unwrap(nodes[i].node.sf_load_handle),
                                file |-> jobs[Unwrap(nodes[i].node.sf_load_handle)].file])
      ]_vars

\* A node whose load thread has ended with an error and is about to be
\* polled by render.
FailedLoad(i) ==
    /\ sf_load_finished(nodes[i].node, jobs)
    /\ jobs[Unwrap(nodes[i].node.sf_load_handle)].status = "err"

\* A LoadFile with a path that can be resolved, for a node of the graph.
LoadStep ==
    /\ ProcessStep
    /\ HeadReq.kind = "NodeRequest"
    /\ HeadReq.id < Len(nodes)
    /\ HeadReq.req.kind = "LoadFile"
    /\ IsSome(translate(HeadReq.req.arg))

\* C20: when a load thread fails, the render that polls it hands Failed to
\* the stored callback (the one call_sf_load_cb also serves on success),
\* leaves the node's engine exactly as it was, and clears the handle and the
\* callback; and a LoadFile with a resolvable path is always accepted by a
\* node of the graph, after a failure too: it starts a new thread, which the
\* node holds, and answers nothing until that thread ends.
C20_FailedLoadReported ==
    [][/\ render =>
             \A i \in 1..Len(nodes) :
                 FailedLoad(i) =>
                    LET cb == nodes[i].node.sf_load_res_cb
                    IN  /\ nodes'[i].node.synth = nodes[i].node.synth
                        /\ nodes'[i].node.preset_map = nodes[i].node.preset_map
                        /\ nodes'[i].node.sf_load_handle = None
                        /\ nodes'[i].node.sf_load_res_cb = None
                        /\ IsSome(cb) =>
                              responses'[Unwrap(cb).responder] =
                                 Append(responses[Unwrap(cb).responder],
                                        NodeResponse(Unwrap(cb).id, "Failed"))
       /\ LoadStep =>
             /\ jobs'[Len(jobs) + 1].status = "running"
             /\ Len(jobs') = Len(jobs) + 1
             /\ nodes'[HeadReq.id + 1].node.sf_load_handle = Some(Len(jobs'))
             /\ nodes'[HeadReq.id + 1].node.synth = nodes[HeadReq.id + 1].node.synth
             /\ responses'[HeadResponder] = <<>>
      ]_vars

\* A node's first load has failed and was reported as Failed, the node is
\* still without an engine, and a second LoadFile has started a new thread.
C20_Witness ==
    /\ Len(nodes) >= 1
    /\ Len(jobs) = 2
    /\ jobs[1].status = "err" /\ jobs[1].joined
    /\ \E r \in DOMAIN responses : responses[r] = <<NodeResponse(0, "Failed")>>
    /\ nodes[1].node.synth = None
    /\ nodes[1].node.sf_load_handle = Some(2)
    /\ jobs[2].status = "running"

\* ------------------------------------------------------------------------
\* Properties of the audio hand-off (checked under SpecAudio)
\* ------------------------------------------------------------------------
\* C4: a callback that publishes a demand of n > 0 samples is answered by
\* exactly one render of exactly n samples: never more than one while it
\* runs, and when it returns it has drained n samples per channel and both
\* queues are empty.
C4_OneRenderPerCallback ==
    /\ (cb_pc \notin {"idle", "panicked"} /\ curr_buf_size > 0) =>
          /\ Len(renders) <= 1
          /\ \A i \in 1..Len(renders) : renders[i] = curr_buf_size
    /\ (cb_pc = "returned" /\ curr_buf_size > 0) =>
          /\ renders = <<curr_buf_size>>
          /\ frame = curr_buf_size
          /\ lbuf_q = 0
          /\ rbuf_q = 0
    /\ cb_pc /= "panicked"

C4_Witness ==
    /\ cb_pc = "returned"
    /\ ncallbacks = 2
    /\ curr_buf_size = BufferSize
    /\ renders = <<BufferSize>>
    /\ frame = BufferSize

\* C5: every callback that has published its demand eventually returns,
\* whatever block length the device hands it.
C5_CallbackReturns == (cb_pc = "poll") ~> (cb_pc = "returned")

\* ------------------------------------------------------------------------
\* Properties of the beat scheduler and its voices (checked under SpecDrum)
\* ------------------------------------------------------------------------
\* C6: the scheduler's position stays inside the rhythm, current_div <
\* num_divs and current_beat < num_beats, and so does every beat-tick fired.
\* Stated for rhythms with at least one beat and one division, the only ones
\* whose bounds a position can meet.
C6_PositionInBounds ==
    /\ (~dm.panicked /\ dm.rhythm.num_divs > 0 /\ dm.rhythm.num_beats > 0) =>
          /\ dm.current_div < dm.rhythm.num_divs
          /\ dm.current_beat < dm.rhythm.num_beats
    /\ (IsSome(fired) /\ Unwrap(fired).rhythm.num_divs > 0
                      /\ Unwrap(fired).rhythm.num_beats > 0) =>
          /\ Unwrap(fired).div < Unwrap(fired).rhythm.num_divs
          /\ Unwrap(fired).beat < Unwrap(fired).rhythm.num_beats

SlotsOf(vs) == [i \in 1..Len(vs.voices) |-> vs.voices[i].slots]

IsMultiple(a, b) == IF b = 0 THEN a = 0 ELSE a > 0 /\ a % b = 0

\* C7: SetRhythm(R') with num_slots(R') = k * num_slots(R), k >= 1, followed
\* by SetRhythm(R), leaves every voice with the slots it had under R before.
C7_RoundTrip ==
    (/\ ~dm.panicked
     /\ Len(snaps) = 2
     /\ snaps[1].rhythm = dm.rhythm
     /\ IsMultiple(num_slots(snaps[2].rhythm), num_slots(snaps[1].rhythm)))
    => SlotsOf(dm.voices) = SlotsOf(snaps[1].voices)

C7_Witness ==
    /\ Len(snaps) = 2
    /\ snaps[1].rhythm = Rhythm(4, 4)
    /\ snaps[2].rhythm = Rhythm(8, 4)
    /\ dm.rhythm = Rhythm(4, 4)
    /\ Len(dm.voices.voices) = 1
    /\ dm.voices.voices[1].slots[2]
    /\ SlotsOf(snaps[2].voices)[1][3]

\* C8: after any sequence of AddVoice, RemoveVoice, ClearVoices, SetSlot and
\* SetRhythm, every voice has exactly num_beats * num_divs slots.
C8_SlotCount ==
    ~dm.panicked =>
        \A i \in 1..Len(dm.voices.voices) :
            Len(dm.voices.voices[i].slots) = dm.rhythm.num_beats * dm.rhythm.num_divs

C8_Witness ==
    /\ ~dm.panicked
    /\ dm.rhythm = Rhythm(3, 4)
    /\ Len(snaps) = 2
    /\ snaps[1].rhythm = Rhythm(4, 0)
    /\ snaps[2].rhythm = Rhythm(8, 4)
    /\ Len(dm.voices.voices) = 1
    /\ Len(dm.voices.voices[1].slots) = 12

\* What a resize from old_size to new_size slots is to make of a voice's
\* slots, case by case.
Resized(old, old_size, new_size) ==
    IF old_size = 0 \/ new_size = 0
    THEN [j \in 1..new_size |-> j <= Len(old) /\ old[j]]
    ELSE IF new_size = old_size THEN old
    ELSE IF new_size % old_size = 0
    THEN [j \in 1..new_size |->
             IF (j - 1) % (new_size \div old_size) = 0
             THEN old[((j - 1) \div (new_size \div old_size)) + 1]
             ELSE FALSE]
    ELSE IF old_size % new_size = 0
    THEN [j \in 1..new_size |-> old[(j - 1) * (old_size \div new_size) + 1]]
    ELSE [j \in 1..new_size |-> j <= old_size /\ old[j]]

\* C26: a SetRhythm that takes the slot count from old to new leaves every
\* voice with: the old slots padded with false or truncated to new when old
\* or new is 0; old[i] at i x k and false elsewhere when new = k x old;
\* old[i x k] at i when old = k x new; the old slots when old = new; and
\* otherwise the old slots cut at the end or followed by false.
C26_SlotResize ==
    (~dm.panicked /\ snaps /= <<>>) =>
        LET before == snaps[Len(snaps)]
        IN  /\ Len(dm.voices.voices) = Len(before.voices.voices)
            /\ \A i \in 1..Len(dm.voices.voices) :
                   dm.voices.voices[i].slots
                     = Resized(before.voices.voices[i].slots,
                               num_slots(before.rhythm), num_slots(dm.rhythm))

\* A voice with slot 1 set went from 4 x 4 to 8 x 4: the slot is now slot 2.
C26_Witness ==
    /\ ~dm.panicked
    /\ snaps /= <<>>
    /\ snaps[Len(snaps)].rhythm = Rhythm(4, 4)
    /\ dm.rhythm = Rhythm(8, 4)
    /\ Len(dm.voices.voices) = 1
    /\ snaps[Len(snaps)].voices.voices[1].slots[2]
    /\ dm.voices.voices[1].slots[3]
    /\ ~dm.voices.voices[1].slots[4]

\* ------------------------------------------------------------------------
\* Properties of the MIDI path (checked under SpecMidi)
\* ------------------------------------------------------------------------
\* An engine takes a NoteOn of velocity 0 for the NoteOff of that key.
AsHeard(ev) ==
    IF ev.e = "NoteOn" /\ ev.vel = 0 THEN [e |-> "NoteOff", key |-> ev.key] ELSE ev

Heard(n) ==
    IF IsSome(n.synth)
    THEN [n EXCEPT !.synth = Some([j \in 1..Len(Unwrap(@)) |-> AsHeard(Unwrap(@)[j])])]
    ELSE n

IsNoteOnZero(message) == message.kind.t = "NoteOn" /\ message.kind.velocity = 0

\* The control message with its velocity-0 note-on replaced by the NoteOff.
AsNoteOff(msg) ==
    IF "midi_msg" \in DOMAIN msg /\ IsNoteOnZero(msg.midi_msg)
    THEN [msg EXCEPT !.midi_msg.kind = NoteOff(@.note, 0)]
    ELSE msg

\* What update leaves behind when the control queue is q.
AfterUpdate(q) ==
    LET a == receive_midi_messages(mnodes, midi_rx, midi_sent)
        b == receive_drum_machine_messages(
                 [panicked |-> a.panicked, nodes |-> a.nodes], q)
    IN  [panicked |-> b.panicked,
         nodes |-> [i \in 1..Len(b.nodes) |-> Heard(b.nodes[i])]]

\* C11: the bytes [0x90|c, k, 0] decode to the message [0x80|c, k, 0] decodes
\* to, the NoteOff of note k on channel c, and a node reacts to a note-on of
\* velocity 0 as it does to the NoteOff of that note, also when the
\* sequencer made the note-on: an update leaves every node as it would had
\* each such note-on in the control queue been the NoteOff.
C11_VelocityZeroIsNoteOff ==
    [][/\ \A b \in Buffers :
            (Len(b) = 3 /\ b[1] \div 16 = 9 /\ b[3] = 0 /\ MidiIn(b))
            => /\ decode(b) = decode(<<b[1] - 16, b[2], 0>>)
               /\ midi_sent' = Append(midi_sent, Message(NoteOff(b[2], 0), b[1] % 16))
       /\ update =>
            AfterUpdate(dm_ctr_rx)
              = AfterUpdate([i \in 1..Len(dm_ctr_rx) |-> AsNoteOff(dm_ctr_rx[i])])
      ]_vars

\* Every message of msgs handed to each of n nodes, message by message.
RECURSIVE InOrder(_, _, _)
InOrder(k, nmsgs, n) ==
    IF k > nmsgs THEN <<>>
    ELSE [i \in 1..n |-> <<k, i>>] \o InOrder(k + 1, nmsgs, n)

\* C17: MIDI messages reach the nodes in the order they were received, each
\* handed to every node of the graph before the next one, none skipped,
\* duplicated or reordered: when an update has returned, every message sent
\* on the channel so far has been handed to every node, in order.
C17_MidiDeliveredInOrder ==
    [][(update /\ "renderer" \notin dead')
          => delivered' = InOrder(1, Len(midi_sent), Len(mnodes))]_vars

\* C12: no MIDI message that can reach a node is fatal: whatever bytes the
\* port delivers and whatever note and channel a voice of the sequencer has,
\* receive_midi_message returns, so the renderer task never dies of an index
\* out of range in the filter.
C12_NoFatalMidiMessage == "renderer" \notin dead

\* The buffers decode must drop: empty, a status nibble outside 0x8..0xE,
\* shorter than the kind needs, or a ControlChange of an unknown controller.
NeededLen(nibble) == IF nibble \in {12, 13} THEN 2 ELSE 3

MustDrop(b) ==
    \/ Len(b) = 0
    \/ /\ Len(b) > 0
       /\ LET nibble == b[1] \div 16
          IN  \/ nibble \notin 8..14
              \/ Len(b) < NeededLen(nibble)
              \/ nibble = 11 /\ Len(b) >= 2 /\ b[2] \notin 0..127

\* C13: decoding never fails fatally, a buffer that is empty, of an unknown
\* status, too short or a ControlChange of an unrecognised controller decodes
\* to None, and what decodes to None is not sent on: the channel and the
\* nodes stay as they were.
C13_DecodeDropsSilently ==
    [][\A b \in Buffers :
          MidiIn(b) => /\ "reader" \notin dead'
                       /\ ~decode(b).panicked
                       /\ MustDrop(b) => decode(b).value = None
                       /\ decode(b).value = None
                            => UNCHANGED <<midi_sent, midi_rx, mnodes, delivered>>
      ]_vars

\* The callback has been called with a ControlChange of controller 200 and
\* with a lone status byte, and nothing was sent.
C13_Witness ==
    /\ nmidi = 2
    /\ midi_in = Some(<<176, 200, 0>>)
    /\ midi_sent = <<>>
    /\ midi_rx.buf = <<>>

\* ------------------------------------------------------------------------
\* Properties of the renderer cycle (checked under SpecCycle)
\* ------------------------------------------------------------------------
Kinds(ns) == [i \in 1..Len(ns) |-> ns[i].kind]

\* C14: a MoveNode whose two indices are valid is answered with a success,
\* the node it names ends at new_id with the other nodes in their order and
\* the length unchanged, and handling it does not end the renderer's loop.
C14_MoveNodeMoves ==
    [][(/\ Renderer_render
        /\ req_rx /= <<>>
        /\ HeadReq.kind = "MoveNode"
        /\ HeadReq.id < Len(nodes)
        /\ HeadReq.new_id < Len(nodes))
       => /\ "renderer" \notin dead'
          /\ Len(responses'[HeadResponder]) = 1
          /\ responses'[HeadResponder][1].kind \in {"Ok", "MoveNode"}
          /\ Len(req_rx) = 1 =>
                Kinds(nodes') = Kinds(InsertAt(RemoveAt(nodes, HeadReq.id + 1),
                                               HeadReq.new_id + 1,
                                               nodes[HeadReq.id + 1]))
      ]_vars

\* The place of a call in Renderer::render: requests, MIDI, sequencer
\* messages, clearing the block, mixing.
Phase(op) ==
    CASE op = "process_request" -> 1
      [] op = "receive_midi_message" -> 2
      [] op = "control_message" -> 3
      [] op = "fill" -> 4
      [] op = "render_additive" -> 5

IsRequestCall(c) == c.op = "process_request"
IsMidiCall(c) == c.op = "receive_midi_message"
IsAudioCall(c) == c.op \in {"fill", "render_additive"}

\* The graph once the requests waiting at the start of the cycle are handled.
AfterCommands == mod_receive_requests(RendererState).nodes

\* C18: in every call of Renderer::render the requests are drained first,
\* then the MIDI channel, then the sequencer's messages, and only then the
\* block is cleared and mixed; a call that ends in a panic mixes nothing.
\* A call that completes leaves no request waiting, hands every MIDI message
\* it received to each node of the graph as the requests left it, and mixes
\* the block from exactly those nodes, each once, in graph order, into a
\* cleared block: a node removed by a request of the cycle adds nothing, a
\* node added by one is mixed.
C18_ControlBeforeAudio ==
    [][Renderer_render =>
         /\ \A i, j \in 1..Len(cycle') :
                i < j => Phase(cycle'[i].op) <= Phase(cycle'[j].op)
         /\ "renderer" \in dead' =>
               /\ mix' = mix
               /\ SelectSeq(cycle', IsAudioCall) = <<>>
         /\ "renderer" \notin dead' =>
               /\ req_rx' = <<>>
               /\ dm_ctr_rx' = <<>>
               /\ Len(SelectSeq(cycle', IsRequestCall)) = Len(req_rx)
               /\ Kinds(nodes') = Kinds(AfterCommands)
               /\ LET m == SelectSeq(cycle', IsMidiCall)
                  IN  /\ nodes' = <<>> => m = <<>>
                      /\ \A i \in 1..Len(m) :
                             m[i].arg[2] = ((i - 1) % Len(nodes')) + 1
                      /\ nodes' /= <<>> => Len(m) % Len(nodes') = 0
               /\ SelectSeq(cycle', IsAudioCall) =
                     <<Call("fill", 0)>>
                        \o [i \in 1..Len(nodes') |-> Call("render_additive", i)]
               /\ mix' = [i \in 1..Len(nodes') |->
                            [pos |-> i, kind |-> nodes'[i].kind,
                             engine |-> nodes'[i].node.synth]]
               /\ (Len(req_rx) = 1 /\ HeadReq.kind = "RemoveNode"
                                   /\ HeadReq.id < Len(nodes))
                     => Len(mix') = Len(nodes) - 1
               /\ (Len(req_rx) = 1 /\ HeadReq.kind = "AddNode")
                     => /\ Len(mix') = Len(nodes) + 1
                        /\ mix'[Len(mix')].kind = HeadReq.node_kind
      ]_vars

\* A cycle has added a node, handed it a MIDI message and a sequencer
\* message, and mixed the block from it and the node before it, replacing
\* what the block held.
C18_Witness ==
    /\ "renderer" \notin dead
    /\ Len(nodes) = 2
    /\ [i \in 1..Len(cycle) |-> cycle[i].op]
          = <<"process_request", "receive_midi_message", "receive_midi_message",
              "control_message", "control_message", "fill",
              "render_additive", "render_additive">>
    /\ cycle[1].arg = "AddNode"
    /\ cycle[2].arg = <<1, 1>>
    /\ cycle[3].arg = <<1, 2>>
    /\ cycle[7].arg = 1
    /\ cycle[8].arg = 2
    /\ Len(mix) = 2

\* C21: polling a node's load thread never waits for it: a thread is joined
\* only in a cycle that found it finished, and a cycle that finds a node's
\* thread still running leaves the handle where it is, the thread unjoined,
\* and (no request waiting) every other field of the node as it was.
C21_PollNeverBlocks ==
    [][Renderer_render =>
         /\ \A j \in 1..Len(jobs') :
               jobs'[j].joined => jobs'[j].status /= "running"
         /\ req_rx = <<>> =>
               \A i \in 1..Len(nodes) :
                   LET h == nodes[i].node.sf_load_handle
                   IN  (IsSome(h) /\ jobs[Unwrap(h)].status = "running")
                          => /\ nodes'[i] = nodes[i]
                             /\ jobs'[Unwrap(h)] = jobs[Unwrap(h)]
                             /\ IsSome(nodes[i].node.sf_load_res_cb) =>
                                   LET r == Unwrap(nodes[i].node.sf_load_res_cb).responder
                                   IN  responses'[r] = responses[r]
      ]_vars

\* A cycle with no request to handle has just polled node 0, whose load
\* thread is still running: the handle is in place and nothing was answered.
C21_Witness ==
    /\ "renderer" \notin dead
    /\ Len(cycle) = 2
    /\ cycle[1].op = "fill"
    /\ cycle[2].op = "render_additive"
    /\ Len(nodes) = 1
    /\ IsSome(nodes[1].node.sf_load_handle)
    /\ jobs[Unwrap(nodes[1].node.sf_load_handle)].status = "running"
    /\ ~jobs[Unwrap(nodes[1].node.sf_load_handle)].joined
    /\ IsSome(nodes[1].node.sf_load_res_cb)
    /\ responses[Unwrap(nodes[1].node.sf_load_res_cb).responder] = <<>>

\* ------------------------------------------------------------------------
\* Properties of the beat scheduler's clock (checked under SpecDrum and
\* SpecBeat)
\* ------------------------------------------------------------------------
\* The scheduler once tick has handled the requests that were waiting.
AfterRequests ==
    receive_requests([dm |-> dm, results |-> <<>>, snaps |-> snaps],
                     dm_req_rx, now, overflow_checks).dm

IsReset(kind) == kind.kind = "Reset" \/ (kind.kind = "SetEnabled" /\ kind.arg)

\* C22: a Reset, or a SetEnabled that enables, handled with the scheduler
\* enabled makes the very next tick fire a beat-tick at once, and that
\* beat-tick is the one for position (0, 0).
C22_ResetFiresFirstPosition ==
    [][(/\ tick
        /\ dm_req_rx /= <<>>
        /\ IsReset(dm_req_rx[Len(dm_req_rx)])
        /\ ~AfterRequests.panicked
        /\ AfterRequests.enabled)
       => /\ IsSome(fired')
          /\ Unwrap(fired').beat = 0
          /\ Unwrap(fired').div = 0
      ]_vars

\* No request waiting for this tick resets the scheduler, switches it on or
\* off, or changes the rhythm.
Undisturbed ==
    \A i \in 1..Len(dm_req_rx) :
        dm_req_rx[i].kind \notin {"Reset", "SetEnabled", "SetRhythm"}

\* The position after (b, d) in row-major order under rhythm r.
Successor(b, d, r) ==
    IF d + 1 < r.num_divs THEN <<b, d + 1>> ELSE <<(b + 1) % r.num_beats, 0>>

\* C23: between resets and rhythm changes a call of tick fires at most one
\* beat-tick, and only when the time since last_time has reached the period;
\* the beat-tick it fires is for the stored position, and the position stored
\* afterwards - the one the next beat-tick is fired for - is its row-major
\* successor, with last_time moved on by one period; a call that fires
\* nothing leaves position and last_time alone.
C23_SuccessorOrder ==
    [][(TickStep /\ Undisturbed /\ dm.rhythm.num_beats > 0) =>
         LET d == AfterRequests
         IN  /\ IsSome(fired') =>
                  /\ d.enabled
                  /\ FGe(FSub(timestamp(now), d.last_time), period(d))
                  /\ Unwrap(fired').beat = dm.current_beat
                  /\ Unwrap(fired').div = dm.current_div
                  /\ ~dm'.panicked =>
                        /\ <<dm'.current_beat, dm'.current_div>> =
                              Successor(dm.current_beat, dm.current_div, dm.rhythm)
                        /\ dm'.last_time = FAdd(dm.last_time, period(d))
             /\ fired' = None =>
                  /\ dm'.current_beat = dm.current_beat
                  /\ dm'.current_div = dm.current_div
                  /\ dm'.last_time = dm.last_time
      ]_vars

\* C24: in the tick loop, whose sleep is never longer than the period, a
\* fired beat-tick moves last_time on by exactly one period (it is never set
\* to the time of the call).  So, counting from a reset at time t0 with tempo
\* and rhythm unchanged since: after n beat-ticks last_time is
\* t0 + (n - 1) x period; the n-th beat-tick is fired by the first call of
\* tick at or after t0 + (n - 1) x period; and after every call of tick
\* (n - 1) x period <= now - t0 < n x period, so the beat-ticks in the window
\* since t0 number (now - t0) / period to within one.
C24_NoDrift ==
    [][LoopTick =>
         /\ (IsSome(fired') /\ ~dm'.panicked) =>
               dm'.last_time = FAdd(AfterRequests.last_time, period(AfterRequests))
         /\ IsSome(epoch') =>
               LET e == Unwrap(epoch')
                   p == period(dm').v
                   due == e.at + (e.n - 1) * p
               IN  /\ period(dm').k = "fin"
                   /\ dm'.last_time = Fin(due)
                   /\ due <= now
                   /\ now < due + p
                   /\ (IsSome(fired') /\ e.n > 1) => Unwrap(ticked_at) < due
      ]_vars

\* Four beat-ticks have been fired since a reset at a later time than the
\* start, the last of them by a call of tick that came after its due time.
C24_Witness ==
    /\ IsSome(epoch)
    /\ Unwrap(epoch).n = 4
    /\ Unwrap(epoch).at > 0
    /\ IsSome(fired)
    /\ ticked_at = Some(now)
    /\ dm.last_time.v < now

\* ------------------------------------------------------------------------
\* Properties of the voice commands (checked under SpecVoice)
\* ------------------------------------------------------------------------
\* The scheduler once tick has handled the first k of the waiting requests.
AfterRequest(k) ==
    receive_requests([dm |-> dm, results |-> <<>>, snaps |-> snaps],
                     SubSeq(dm_req_rx, 1, k), now, overflow_checks).dm

\* The command names a voice the list vs does not have, or a slot the voice
\* does not have.
UnknownIndex(kind, vs) ==
    \/ kind.kind = "RemoveVoice" /\ kind.arg >= Len(vs.voices)
    \/ /\ kind.kind \in {"SetVoiceName", "SetVoiceInstrument", "SetVoiceNote",
                         "SetVoiceVelocity", "SetVoiceChannel"}
       /\ kind.arg[1] >= Len(vs.voices)
    \/ /\ kind.kind = "SetSlot"
       /\ \/ kind.arg[1] >= Len(vs.voices)
          \/ kind.arg[2] >= Len(vs.voices[kind.arg[1] + 1].slots)

\* C27: a voice command that names an unknown voice, or a SetSlot that names
\* a slot the voice does not have, is answered with a failure in the tick
\* that handles it, does not end the scheduler, and leaves the voice list
\* as it was.
C27_UnknownIndexFails ==
    [][tick =>
         \A k \in 1..Len(dm_req_rx) :
             (/\ ~AfterRequest(k - 1).panicked
              /\ UnknownIndex(dm_req_rx[k], AfterRequest(k - 1).voices))
             => /\ results'[k] = "Failed"
                /\ ~AfterRequest(k).panicked
                /\ AfterRequest(k).voices = AfterRequest(k - 1).voices
                /\ ~dm'.panicked
      ]_vars

\* A command was refused while the list held one voice.
C27_Witness ==
    /\ results = <<"Failed">>
    /\ Len(dm.voices.voices) = 1
    /\ ~dm.panicked

\* ------------------------------------------------------------------------
\* Properties of a hit, from the beat-tick to the node (checked under
\* SpecVoice and SpecMidi)
\* ------------------------------------------------------------------------
\* The control messages of a voice's hit: the note-on, then the note-off.
HitOf(voice) ==
    <<[instrument_id |-> Unwrap(voice.instrument_index), channel |-> voice.channel,
       note |-> voice.note, velocity |-> voice.velocity],
      [instrument_id |-> Unwrap(voice.instrument_index), channel |-> voice.channel,
       note |-> voice.note, velocity |-> 0]>>

\* The scheduler's side of C25: a tick that fires the beat-tick (beat, div)
\* sends, for every voice with a target whose slot beat x num_divs + div is
\* set, in the order of the voice list, the voice's note-on and right after
\* it its note-off; it sends nothing for the other voices, and a tick that
\* fires no beat-tick sends nothing.
BeatTickSendsHits ==
    [][TickStep =>
         IF IsSome(fired')
         THEN LET f == Unwrap(fired')
                  idx == f.beat * f.rhythm.num_divs + f.div
                  Sounds(v) == /\ IsSome(v.instrument_index)
                               /\ idx < Len(v.slots)
                               /\ v.slots[idx + 1]
                  H == SelectSeq(AfterRequests.voices.voices, Sounds)
              IN  /\ Len(sent') = 2 * Len(H)
                  /\ \A k \in 1..Len(H) :
                         /\ sent'[2 * k - 1] = HitOf(H[k])[1]
                         /\ sent'[2 * k] = HitOf(H[k])[2]
         ELSE sent' = <<>>
      ]_vars

\* A beat-tick has made one voice sound while another stayed silent.
BeatTickSendsHits_Witness ==
    /\ Len(sent) = 2
    /\ Len(dm.voices.voices) = 2
    /\ IsSome(fired)

FromSequencer(call) == call.from = "sequencer"

\* The two calls a hit of the scheduler is to end in at the node it names.
HeardOn(first) ==
    [from |-> "sequencer", node |-> first.instrument_id,
     message |-> Message(NoteOn(first.note, first.velocity), first.channel)]

HeardOff(first) ==
    [from |-> "sequencer", node |-> first.instrument_id,
     message |-> Message(NoteOff(first.note, 0), first.channel)]

\* C25: a hit of a voice reaches its target node as one NoteOn(note,
\* velocity) immediately followed by one NoteOff(note), with no other call of
\* the node's receive_midi_message in between: once both messages are sent
\* and drained the two calls stand next to each other in the order of calls,
\* handing over the note-on never ends the renderer before the note-off, and
\* a hit whose target is not below the graph length ends in no call at all.
C25_HitHeardAsPair ==
    \A h \in 1..Len(hits) :
        LET first == hits[h].msgs[1]
            own == SelectSeq(heard, FromSequencer)
        IN  "channel" \in DOMAIN first =>
              /\ first.instrument_id >= Len(mnodes) => own = <<>>
              /\ (heard /= <<>> /\ heard[Len(heard)] = HeardOn(first))
                    => "renderer" \notin dead
              /\ (/\ first.instrument_id < Len(mnodes)
                  /\ hits[h].sent = 2
                  /\ dm_ctr_rx = <<>>
                  /\ "renderer" \notin dead)
                    => /\ own = <<HeardOn(first), HeardOff(first)>>
                       /\ \E j \in 1..(Len(heard) - 1) :
                              /\ heard[j] = HeardOn(first)
                              /\ heard[j + 1] = HeardOff(first)

\* What does hold of a hit whose note and channel the filter can index: the
\* node gets the note-on and then the note-off, each once and in this
\* order, and between the two only messages of the MIDI port.
HitHeardInOrder ==
    \A h \in 1..Len(hits) :
        LET first == hits[h].msgs[1]
            own == SelectSeq(heard, FromSequencer)
        IN  ("channel" \in DOMAIN first /\ first.note < NUM_NOTES
             /\ first.channel < NUM_CHANNELS) =>
              /\ first.instrument_id >= Len(mnodes) => own = <<>>
              /\ own \in {<<>>, <<HeardOn(first)>>, <<HeardOn(first), HeardOff(first)>>}
              /\ (/\ first.instrument_id < Len(mnodes)
                  /\ hits[h].sent = 2
                  /\ dm_ctr_rx = <<>>
                  /\ "renderer" \notin dead)
                    => own = <<HeardOn(first), HeardOff(first)>>

\* A message of the port was handed to the target between the two.
HitHeardInOrder_Witness ==
    /\ Len(heard) = 3
    /\ heard[1].from = "sequencer"
    /\ heard[2].from = "port"
    /\ heard[3].from = "sequencer"
    /\ heard[2].node = heard[1].node

\* ------------------------------------------------------------------------
\* Properties of the MIDI filter and of the transposition (checked under
\* SpecFilter and SpecTranspose)
\* ------------------------------------------------------------------------
\* A message is handed to the node in this step.
ReceiveStep ==
    \E message \in ProbeMessages \cup NoteMessages \cup VelocityMessages :
        UnitReceive(message)

\* The flag of the filter that belongs to the message's type and index.
TypeFlag(f, kind) ==
    CASE kind.t \in {"NoteOn", "PolyphonicAftertouch"} -> f.notes[kind.note]
      [] kind.t = "NoteOff" -> TRUE
      [] kind.t = "ControlChange" -> f.control_commands[kind.kind.number]
      [] kind.t = "ProgramChange" -> f.program_change
      [] kind.t = "ChannelAftertouch" -> f.channel_aftertouch
      [] kind.t = "PitchWheel" -> f.pitch_wheel

\* The filter has a flag for the message's type and index.
HasTypeFlag(kind) ==
    /\ kind.t \in {"NoteOn", "PolyphonicAftertouch"} => kind.note < NUM_NOTES
    /\ kind.t = "ControlChange" => kind.kind.number < NUM_CONTROL_COMMANDS

\* C28, as the claim states it: a disabled filter passes every message, and
\* an enabled filter passes a message iff the flag of its type and index is
\* set, whatever the other fields of the filter are (stated for the messages
\* whose channel, note and controller number the filter has a flag for).
C28_FilterPerType ==
    [][ReceiveStep =>
         LET p == Unwrap(probe')
             f == unit.midi_filter
         IN  (p.message.channel < NUM_CHANNELS /\ HasTypeFlag(p.message.kind))
             => p.pass = Ret(~f.enabled \/ TypeFlag(f, p.message.kind))
      ]_vars

\* C28, amended: a disabled filter passes every message; an enabled filter
\* rejects every message whose channel's flag is unset, whatever its type,
\* and decides the others by the flag of their type and index; an enabled
\* filter that has no flag for the channel, or for the note or controller
\* it has to look up, panics.
C28_FilterPerChannelAndType ==
    [][ReceiveStep =>
         LET p == Unwrap(probe')
             f == unit.midi_filter
             m == p.message
         IN  IF ~f.enabled THEN p.pass = Ret(TRUE)
             ELSE IF m.channel >= NUM_CHANNELS THEN p.pass.panicked
             ELSE IF ~f.channels[m.channel] THEN p.pass = Ret(FALSE)
             ELSE IF HasTypeFlag(m.kind) THEN p.pass = Ret(TypeFlag(f, m.kind))
             ELSE p.pass.panicked
      ]_vars

\* An enabled filter with channel 0 closed and every other flag set has
\* rejected a ProgramChange on channel 0.
C28_Witness ==
    /\ IsSome(probe)
    /\ Unwrap(probe).message = Message(ProgramChange(1), 0)
    /\ Unwrap(probe).pass = Ret(FALSE)
    /\ unit.midi_filter = [DefaultMidiFilter EXCEPT !.channels[0] = FALSE]

\* C29, as the claim states it: a NoteOff on any of the 16 channels passes
\* the filter, whatever the filter's flags are.
C29_NoteOffAlwaysPasses ==
    [][ReceiveStep =>
         LET p == Unwrap(probe')
         IN  (p.message.kind.t = "NoteOff" /\ p.message.channel < NUM_CHANNELS)
             => p.pass = Ret(TRUE)
      ]_vars

\* C29, amended: a NoteOff passes the filter whatever the note, controller
\* and type flags are, when the filter is disabled or the flag of the
\* NoteOff's channel is set; an enabled filter rejects it when that flag is
\* unset, and panics when it has no flag for the channel.
C29_NoteOffPassesOpenChannel ==
    [][ReceiveStep =>
         LET p == Unwrap(probe')
             f == unit.midi_filter
             c == p.message.channel
         IN  p.message.kind.t = "NoteOff" =>
               /\ (~f.enabled \/ (c < NUM_CHANNELS /\ f.channels[c])) <=> p.pass = Ret(TRUE)
               /\ (f.enabled /\ c < NUM_CHANNELS /\ ~f.channels[c]) <=> p.pass = Ret(FALSE)
               /\ (f.enabled /\ c >= NUM_CHANNELS) <=> p.pass.panicked
      ]_vars

\* The NoteOff of note 60 has passed an enabled filter whose flags for note
\* 60 and for the other types are unset.
C29_Witness ==
    /\ IsSome(probe)
    /\ Unwrap(probe).message = Message(NoteOff(60, 0), 0)
    /\ Unwrap(probe).pass = Ret(TRUE)
    /\ unit.midi_filter.enabled
    /\ ~unit.midi_filter.notes[60]
    /\ ~unit.midi_filter.program_change
    /\ unit.synth = Some(<<[e |-> "NoteOff", key |-> 60]>>)

\* The transposition the claim gives a node with these settings.
TotalTransposition(n) ==
    LET sum == n.transposition + n.global_transposition
    IN  IF n.ignore_global_transposition THEN n.transposition
        ELSE IF sum > 127 THEN 127
        ELSE IF sum < -128 THEN -128
        ELSE sum

\* C30: the note handed to the engine is (note + T) mod 256, T being the
\* node's transposition when it ignores the global one and otherwise the sum
\* of the two saturated to -128..127, taken from the node's settings as the
\* message is received, for a NoteOn and for a NoteOff.
C30_Transposition ==
    [][ReceiveStep =>
         LET p == Unwrap(probe')
             kind == p.message.kind
             key == (kind.note + TotalTransposition(unit)) % 256
         IN  (~p.panicked /\ p.pass.value) =>
               /\ kind.t = "NoteOn" =>
                     unit'.synth = Some(<<[e |-> "NoteOn", key |-> key,
                                           vel |-> kind.velocity]>>)
               /\ kind.t = "NoteOff" =>
                     unit'.synth = Some(<<[e |-> "NoteOff", key |-> key]>>)
      ]_vars

\* Note 0 under a sum of transpositions that saturates at -128 has gone to
\* the engine as key 128.
C30_Witness ==
    /\ IsSome(probe)
    /\ Unwrap(probe).message = Message(NoteOn(0, 100), 0)
    /\ unit.transposition = -128
    /\ unit.global_transposition = -128
    /\ ~unit.ignore_global_transposition
    /\ unit.synth = Some(<<[e |-> "NoteOn", key |-> 128, vel |-> 100]>>)

\* ------------------------------------------------------------------------
\* Properties of the velocity mapping (checked under SpecVelocity)
\* ------------------------------------------------------------------------
\* C31: a NoteOn that passes the filter reaches the engine with the velocity
\* map(velocity_mapping, velocity) of the node's mapping as the message is
\* received.
C31_VelocityMapped ==
    [][ReceiveStep =>
         LET p == Unwrap(probe')
             kind == p.message.kind
         IN  (~p.panicked /\ p.pass.value /\ kind.t = "NoteOn") =>
               /\ Len(Unwrap(unit'.synth)) = 1
               /\ Unwrap(unit'.synth)[1].e = "NoteOn"
               /\ Unwrap(unit'.synth)[1].vel = map(unit.velocity_mapping, kind.velocity)
      ]_vars

\* What the node does instead: the velocity goes to the engine as it came,
\* whatever the mapping is.
VelocityForwardedUnmapped ==
    [][ReceiveStep =>
         LET p == Unwrap(probe')
             kind == p.message.kind
         IN  (~p.panicked /\ p.pass.value /\ kind.t = "NoteOn") =>
               unit'.synth = Some(<<[e |-> "NoteOn", key |-> kind.note,
                                     vel |-> kind.velocity]>>)
      ]_vars

\* A NoteOn of velocity 127 has gone to the engine unmapped under
\* Linear{min: 10, max: 20}.
VelocityForwardedUnmapped_Witness ==
    /\ IsSome(probe)
    /\ Unwrap(probe).message = Message(NoteOn(60, 127), 0)
    /\ unit.velocity_mapping = Linear(10, 20)
    /\ unit.synth = Some(<<[e |-> "NoteOn", key |-> 60, vel |-> 127]>>)

\* The function itself is as the claim describes it: Identity returns the
\* velocity, Linear maps 0 to min, 127 to max and every velocity into
\* min..max, and the values of the unit test of velocity_map.rs come out.
MapAsDescribed ==
    /\ \A v \in 0..127 : map(Identity, v) = v
    /\ \A k \in VelocityMappings \ {Identity} :
          /\ map(k, 0) = k.min
          /\ map(k, 127) = k.max
          /\ \A v \in 0..127 : map(k, v) \in k.min..k.max
    /\ map_linear(60, 0, 1) = 0 /\ map_linear(70, 0, 1) = 1
    /\ map_linear(90, 0, 3) = 2 /\ map_linear(90, 1, 3) = 2

\* ------------------------------------------------------------------------
\* Properties of the scratch buffers (checked under SpecScratch)
\* ------------------------------------------------------------------------
\* A block is rendered in this step (with the buffers the step records).
RenderStep ==
    /\ IsSome(probe')
    /\ UnitRender(Unwrap(probe').lbuf_in, Unwrap(probe').rbuf_in)

\* buffer, with the first len samples of tmp added to its first len samples
AddedUpTo(len, buffer, tmp) ==
    [i \in 1..Len(buffer) |-> IF i <= len THEN buffer[i] + tmp[i] ELSE buffer[i]]

\* old and new agree on every index above len that old has
SameBeyond(len, old, new) ==
    \A i \in (len + 1)..Len(old) : i <= Len(new) /\ new[i] = old[i]

\* C32: whatever the lengths of the blocks rendered so far, a call of
\* render_additive does not panic, leaves neither scratch buffer shorter
\* than it was, has both at least as long as the requested length (the
\* shorter of the two output buffers), adds exactly the first len scratch
\* samples to the first len samples of each output buffer, and touches no
\* sample beyond len of the scratch or of the output buffers.
C32_ScratchBuffers ==
    [][RenderStep =>
         LET p == Unwrap(probe')
             len == Min(Len(p.lbuf_in), Len(p.rbuf_in))
         IN  /\ ~p.panicked
             /\ Len(unit'.tmp_lbuf) >= Len(unit.tmp_lbuf)
             /\ Len(unit'.tmp_rbuf) >= Len(unit.tmp_rbuf)
             /\ Len(unit'.tmp_lbuf) >= len
             /\ Len(unit'.tmp_rbuf) >= len
             /\ p.lbuf = AddedUpTo(len, p.lbuf_in, unit'.tmp_lbuf)
             /\ p.rbuf = AddedUpTo(len, p.rbuf_in, unit'.tmp_rbuf)
             /\ SameBeyond(len, unit.tmp_lbuf, unit'.tmp_lbuf)
             /\ SameBeyond(len, unit.tmp_rbuf, unit'.tmp_rbuf)
      ]_vars

\* A block of one sample has been rendered by a node whose scratch buffers
\* an earlier block of three has left three long: the scratch buffers are
\* still three long and one sample was added to each output buffer.
C32_Witness ==
    /\ IsSome(probe)
    /\ ~Unwrap(probe).panicked
    /\ Unwrap(probe).lbuf_in = <<10>>
    /\ Unwrap(probe).rbuf_in = <<10, 10>>
    /\ Unwrap(probe).lbuf = <<10 + EngineOutput.left>>
    /\ Unwrap(probe).rbuf = <<10 + EngineOutput.right, 10>>
    /\ unit.gain = 1
    /\ unit.tmp_lbuf = <<EngineOutput.left, 2 * EngineOutput.left, 2 * EngineOutput.left>>
    /\ unit.tmp_rbuf = <<EngineOutput.right, 2 * EngineOutput.right, 2 * EngineOutput.right>>

\* ------------------------------------------------------------------------
\* Properties of the observers (checked under SpecObserve, and under Spec
\* for the renderer of render/renderer.rs)
\* ------------------------------------------------------------------------
\* The graph mutation a broadcast message carries.
EventOf(u) == IF u.kind = "RendererResponse" THEN u.res ELSE u

\* An observer's replica (the kinds of its nodes) after it has applied the
\* messages ups to the replica rep in their order; ok tells whether every
\* index it was given named a node of the replica.
RECURSIVE Replay(_, _, _)
Replay(rep, ok, ups) ==
    IF ups = <<>> THEN [kinds |-> rep, ok |-> ok]
    ELSE
    LET e == EventOf(Head(ups))
        rest == Tail(ups)
    IN  CASE e.kind = "AddNode" -> Replay(Append(rep, e.node_kind), ok, rest)
          [] e.kind \in {"RemoveNode", "CloneNode", "MoveNode", "NodeUpdates",
                         "NodeResponse"} /\ e.id >= Len(rep) ->
                Replay(rep, FALSE, rest)
          [] e.kind = "RemoveNode" /\ e.id < Len(rep) ->
                Replay(RemoveAt(rep, e.id + 1), ok, rest)
          [] e.kind = "CloneNode" /\ e.id < Len(rep) ->
                Replay(Append(rep, rep[e.id + 1]), ok, rest)
          [] e.kind = "MoveNode" /\ e.id < Len(rep) ->
                IF e.new_id < Len(rep)
                THEN Replay(InsertAt(RemoveAt(rep, e.id + 1), e.new_id + 1, rep[e.id + 1]),
                            ok, rest)
                ELSE Replay(rep, FALSE, rest)
          [] OTHER -> Replay(rep, ok, rest)

Replica == Replay(<<>>, TRUE, updates)

\* Every answered request's response has been broadcast.
AllBroadcast == \A r \in 1..MaxCycleReqs : responses[r] /= <<>> => r \in Broadcast

\* C33: an observer that starts from the empty graph and applies the
\* broadcast messages in the order received holds, once it has received the
\* messages of every answered request, the kinds of the renderer's nodes in
\* the renderer's order, and every index it was given named a node of its
\* replica.
C33_ObserversFollow ==
    AllBroadcast => (Replica.ok /\ Replica.kinds = Kinds(nodes))

\* The renderer of render/renderer.rs broadcasts the updates itself, as it
\* applies them: there the replica of an observer that has received every
\* broadcast is the renderer's list of kinds, and every index named a node.
UpdatesInMutationOrder == Replica.ok /\ Replica.kinds = Kinds(nodes)

\* There, an observer has followed two additions and a move.
UpdatesInMutationOrder_Witness ==
    /\ Len(updates) = 3
    /\ updates[3].kind = "MoveNode"
    /\ Replica.kinds = <<"FluidliteSynth", "OxiSynth">>

\* A clone and a removal answered in this order and broadcast in the other.
BroadcastOutOfOrder ==
    /\ Len(updates) = 3
    /\ updates[1].res.kind = "AddNode"
    /\ updates[2].res.kind = "RemoveNode"
    /\ updates[3].res.kind = "CloneNode"
    /\ updates[2].responder > updates[3].responder
    /\ Kinds(nodes) = <<"OxiSynth">>
    /\ Replica.kinds = <<>>

\* ------------------------------------------------------------------------
\* Properties of a voice's target (checked under SpecTarget)
\* ------------------------------------------------------------------------
\* The kind of the node at the index when the voice is given its target.
KindAt(target) == IF target = 0 THEN "OxiSynth" ELSE "FluidliteSynth"

\* In the latest call of Renderer::render, every control message of the
\* sequencer went to a node of this kind, or to no node at all when the
\* graph holds no node of this kind.
HitsReachOnly(kind) ==
    \A i \in 1..Len(cycle) :
        cycle[i].op = "control_message" =>
            LET id == cycle[i].arg
            IN  /\ id < Len(nodes) => nodes[id + 1].kind = kind
                /\ (\E j \in 1..Len(nodes) : nodes[j].kind = kind) => id < Len(nodes)

\* C34: once a voice has been given a target index (here with the graph
\* [OxiSynth, FluidliteSynth]), its hits reach the node that was at that
\* index and no other node, whatever RemoveNode does to the graph
\* afterwards: none when that node has been removed, the same node at its
\* new index when a node before it has been removed.
C34_HitsFollowNode ==
    \A target \in TargetIndices :
        (/\ VoiceIsSetUp
         /\ dm.voices.voices[1].instrument_index = Some(target))
        => HitsReachOnly(KindAt(target))

\* What happens instead: a control message goes to whatever node is at the
\* index the voice was given, as long as the graph has that many nodes.
HitsGoToIndex ==
    [][Renderer_render =>
         \A i \in 1..Len(cycle') :
             cycle'[i].op = "control_message" =>
                 \E v \in 1..Len(dm.voices.voices) :
                     dm.voices.voices[v].instrument_index = Some(cycle'[i].arg)
      ]_vars

\* The OxiSynth node at index 0, the target of the voice, has been removed
\* in an earlier call of Renderer::render; the voice has fired since, and
\* its hit has gone to the FluidliteSynth node that took the place.
HitsGoToIndex_Witness ==
    /\ VoiceIsSetUp
    /\ dm.voices.voices[1].instrument_index = Some(0)
    /\ Kinds(nodes) = <<"FluidliteSynth">>
    /\ Len(cycle) >= 2
    /\ cycle[1].op = "control_message" /\ cycle[1].arg = 0
    /\ cycle[2].op = "control_message" /\ cycle[2].arg = 0

\* The voice aimed at the FluidliteSynth node at index 1 has fired after
\* the node before its target was removed: the hit has gone to no node.
HitLost ==
    /\ VoiceIsSetUp
    /\ dm.voices.voices[1].instrument_index = Some(1)
    /\ Kinds(nodes) = <<"FluidliteSynth">>
    /\ Len(cycle) >= 2
    /\ cycle[1].op = "control_message" /\ cycle[1].arg = 1

\* ------------------------------------------------------------------------
\* Properties of a key pressed and released (checked under SpecNotes)
\* ------------------------------------------------------------------------
\* A message is handed to the node in this step, the engine keeping its
\* earlier events.
PlayStep ==
    /\ IsSome(probe')
    /\ UnitPlay(Unwrap(probe').message)

\* The engine's last event is the NoteOn of a key that still sounds.
Sounding(n) ==
    /\ Unwrap(n.synth) /= <<>>
    /\ Unwrap(n.synth)[Len(Unwrap(n.synth))].e = "NoteOn"

SoundingKey(n) == Unwrap(n.synth)[Len(Unwrap(n.synth))].key

\* C35: when the node receives the NoteOff of a source note whose NoteOn it
\* has forwarded to the engine with key k, it forwards the NoteOff with the
\* same key k, whatever requests have changed its transposition, its
\* enabled flag or its filter in between.
C35_NoStuckNotes ==
    [][(PlayStep /\ Unwrap(probe').message.kind.t = "NoteOff" /\ Sounding(unit))
       => unit'.synth = Some(Append(Unwrap(unit.synth),
                                    [e |-> "NoteOff", key |-> SoundingKey(unit)]))
      ]_vars

\* What holds instead: the NoteOff releases the key when the node's
\* settings at that moment still transpose the note to the sounding key,
\* and its filter is disabled or has the channel open.
NoteOffReleasesUnderSameSettings ==
    [][(/\ PlayStep
        /\ Unwrap(probe').message.kind.t = "NoteOff"
        /\ Sounding(unit)
        /\ transpose_note(unit, Unwrap(probe').message.kind.note) = SoundingKey(unit)
        /\ (~unit.midi_filter.enabled \/ unit.midi_filter.channels[0]))
       => unit'.synth = Some(Append(Unwrap(unit.synth),
                                    [e |-> "NoteOff", key |-> SoundingKey(unit)]))
      ]_vars

\* Note 60 was pressed, the transposition was set to 12, and the release
\* went to the engine for key 72: key 60 still sounds.
NoteOffReleasesUnderSameSettings_Witness ==
    /\ unit.transposition = 12
    /\ unit.synth = Some(<<[e |-> "NoteOn", key |-> 60, vel |-> 100],
                           [e |-> "NoteOff", key |-> 72]>>)

\* Note 60 was pressed, channel 0 was closed in the filter, and the release
\* was rejected: key 60 still sounds.
ReleaseRejected ==
    /\ IsSome(probe)
    /\ Unwrap(probe).message = Message(NoteOff(60, 0), 0)
    /\ Unwrap(probe).pass = Ret(FALSE)
    /\ unit.synth = Some(<<[e |-> "NoteOn", key |-> 60, vel |-> 100]>>)

\* A disabled node still releases: the node was disabled while key 60
\* sounded, and the NoteOff went to the engine.
ReleasedWhileDisabled ==
    /\ ~unit.enabled
    /\ unit.synth = Some(<<[e |-> "NoteOn", key |-> 60, vel |-> 100],
                           [e |-> "NoteOff", key |-> 60]>>)

\* ------------------------------------------------------------------------
\* Rhythms without beats or divisions (checked under SpecDrum)
\* ------------------------------------------------------------------------
ZeroRhythm(d) == d.rhythm.num_beats = 0 \/ d.rhythm.num_divs = 0

\* C36: under a rhythm with num_beats = 0 or num_divs = 0 no tick, beat wrap
\* or Reset is fatal: a scheduler that holds such a rhythm keeps running.
C36_ZeroRhythmNotFatal == ZeroRhythm(dm) => ~dm.panicked

\* SetRhythm with a zero component leaves every voice with no slots.
ZeroRhythmEmptiesSlots ==
    (ZeroRhythm(dm) /\ ~dm.panicked) =>
        \A i \in 1..Len(dm.voices.voices) : dm.voices.voices[i].slots = <<>>

ZeroRhythmEmptiesSlots_Witness ==
    /\ ZeroRhythm(dm)
    /\ ~dm.panicked
    /\ Len(dm.voices.voices) > 0

\* The rewind to (num_beats - 1, num_divs - 1) underflows.
ResetUnderflows ==
    /\ dm.panicked
    /\ dm.rhythm.num_divs = 0
    /\ overflow_checks

\* The beat wrap takes a remainder by zero, with and without overflow checks.
BeatWrapDividesByZero ==
    /\ dm.panicked
    /\ dm.rhythm.num_beats = 0
    /\ ~overflow_checks
    /\ IsSome(fired)

\* ------------------------------------------------------------------------
\* MIDI messages and the nodes' enabled flag (checked under SpecMidi)
\* ------------------------------------------------------------------------
\* The node's filter, asked about the message, answers yes.
FilterPasses(n, message) ==
    LET f == n.midi_filter
    IN  \/ ~f.enabled
        \/ /\ message.channel < NUM_CHANNELS
           /\ f.channels[message.channel]
           /\ HasTypeFlag(message.kind)
           /\ TypeFlag(f, message.kind)

\* The node hands the message to its engine: its filter passes it, and the
\* node is enabled or the message is not a NoteOn.
Forwards(n, message) ==
    FilterPasses(n, message) /\ (n.enabled \/ message.kind.t /= "NoteOn")

\* The messages this update drains from the channel, oldest first.
Drained ==
    IF midi_rx.lagged THEN <<>>
    ELSE [j \in 1..Len(midi_rx.buf) |-> midi_sent[midi_rx.buf[j]]]

\* The node after it has forwarded to its engine what it forwards of q.
RECURSIVE AfterForwarding(_, _)
AfterForwarding(n, q) ==
    IF q = <<>> THEN n
    ELSE AfterForwarding(IF Forwards(n, Head(q)) THEN process_midi_message(n, Head(q))
                         ELSE n,
                         Tail(q))

MidiPhase == receive_midi_messages(mnodes, midi_rx, midi_sent)

\* C37: every message an update drains from the MIDI channel is forwarded to
\* the engine of every enabled node whose filter passes it; a disabled node
\* forwards no NoteOn, and forwards every other message its filter passes.
C37_ForwardedToEnabledNodes ==
    [][update =>
         MidiPhase.nodes = [i \in 1..Len(mnodes) |-> AfterForwarding(mnodes[i], Drained)]
      ]_vars

\* The same for the updates whose drain no node's filter ends.
ForwardedUnlessFatal ==
    [][(update /\ ~MidiPhase.panicked) =>
         MidiPhase.nodes = [i \in 1..Len(mnodes) |-> AfterForwarding(mnodes[i], Drained)]
      ]_vars

\* A disabled node was handed the NoteOn and then the NoteOff of note 60:
\* its engine has the release only.
ForwardedUnlessFatal_Witness ==
    /\ "renderer" \notin dead
    /\ Len(midi_sent) = 2
    /\ midi_sent[1] = Message(NoteOn(60, 100), 0)
    /\ midi_sent[2] = Message(NoteOff(60, 0), 0)
    /\ Len(mnodes) = 2
    /\ ~mnodes[1].enabled
    /\ mnodes[1].synth = Some(<<[e |-> "NoteOff", key |-> 60]>>)
    /\ mnodes[2].enabled
    /\ IsSome(mnodes[2].synth)
    /\ Len(Unwrap(mnodes[2].synth)) = 2

\* The filter of the first node ended the drain: the second node, enabled
\* and with a filter that passes everything, was not handed the message.
DrainCutShort ==
    /\ "renderer" \in dead
    /\ delivered = <<(<<1, 1>>)>>
    /\ Len(mnodes) = 2
    /\ mnodes[2].enabled
    /\ ~mnodes[2].midi_filter.enabled
    /\ mnodes[2].synth = Some(<<>>)

\* ------------------------------------------------------------------------
\* Requests a node refuses (checked under Spec)
\* ------------------------------------------------------------------------
\* process_request hands the head of the queue to the node it names, and the
\* node answers `kind` at once.
AnsweredStep(kind) ==
    /\ process_node_request
    /\ HeadReq.id < Len(nodes)
    /\ responses'[HeadResponder]
          = Append(responses[HeadResponder], NodeResponse(HeadReq.id, kind))

SerializedSame(id) == serialize(nodes'[id + 1].node) = serialize(nodes[id + 1].node)

\* C38: a NodeRequest that is answered Failed or Denied leaves the node's
\* serialized state as it was.
C38_RefusedLeavesStateUnchanged ==
    [][(AnsweredStep("Failed") \/ AnsweredStep("Denied")) => SerializedSame(HeadReq.id)
      ]_vars

\* A request of a kind the node does not implement changes nothing.
DeniedLeavesStateUnchanged ==
    [][AnsweredStep("Denied") =>
         /\ SerializedSame(HeadReq.id)
         /\ nodes' = nodes
      ]_vars

DeniedLeavesStateUnchanged_Witness ==
    /\ IsSome(last)
    /\ LastReq.kind = "NodeRequest"
    /\ LastReq.id < Len(nodes)
    /\ Len(responses[Unwrap(last).responder]) > 0
    /\ responses[Unwrap(last).responder][Len(responses[Unwrap(last).responder])]
          = NodeResponse(LastReq.id, "Denied")

\* SetBankAndPreset on a node without engine, answered Failed, has stored
\* its bank and program.
RefusedPresetStored ==
    /\ IsSome(last)
    /\ LastReq.kind = "NodeRequest"
    /\ LastReq.req.kind = "SetBankAndPreset"
    /\ LastReq.id < Len(nodes)
    /\ nodes[LastReq.id + 1].node.synth = None
    /\ nodes[LastReq.id + 1].node.preset_map = None
    /\ serialize(nodes[LastReq.id + 1].node).bank = Some(LastReq.req.arg[1])

\* LoadFile with a path no virtual path translates, answered Failed, has
\* replaced the file the node names.
RefusedFileStored ==
    /\ IsSome(last)
    /\ LastReq.kind = "NodeRequest"
    /\ LastReq.req.kind = "LoadFile"
    /\ LastReq.id < Len(nodes)
    /\ translate(LastReq.req.arg) = None
    /\ serialize(nodes[LastReq.id + 1].node).loaded_file = Some(LastReq.req.arg)

\* ------------------------------------------------------------------------
\* The preset selected by a load (checked under SpecPreset)
\* ------------------------------------------------------------------------
\* The load thread of node i has ended with a result this step hands over.
LoadSucceeds(i) ==
    /\ sf_load_finished(nodes[i].node, jobs)
    /\ jobs[Unwrap(nodes[i].node.sf_load_handle)].status = "ok"

\* <<bank, program>> is the preset of the lowest bank, and of the lowest
\* program within it.
IsFirstPreset(presets, bank, program) ==
    /\ <<bank, program>> \in presets
    /\ \A q \in presets : bank < q[1] \/ (bank = q[1] /\ program <= q[2])

\* C39: when a load completes successfully, the bank and program selected
\* when the load was started are selected again if the new preset map has
\* them; otherwise the preset of the lowest bank and lowest program is; if
\* the map is empty none is.  So the selection after the load is absent or
\* in the map, and absent only if the map is empty.
C39_PresetAfterLoad ==
    [][render =>
         \A i \in 1..Len(nodes) :
            LoadSucceeds(i) =>
               LET job == jobs[Unwrap(nodes[i].node.sf_load_handle)]
                   presets == PresetsOf(job.file)
                   bank == nodes'[i].node.last_bank
                   program == nodes'[i].node.last_preset
                   had == /\ IsSome(job.last_bank)
                          /\ IsSome(job.last_preset)
                          /\ has_preset(presets, Unwrap(job.last_bank), Unwrap(job.last_preset))
               IN  /\ nodes'[i].node.preset_map = Some(presets)
                   /\ IsSome(bank) <=> IsSome(program)
                   /\ had => (bank = job.last_bank /\ program = job.last_preset)
                   /\ (~had /\ presets /= {}) =>
                         (IsSome(bank) /\ IsFirstPreset(presets, Unwrap(bank), Unwrap(program)))
                   /\ presets = {} <=> bank = None
                   /\ IsSome(bank) => has_preset(presets, Unwrap(bank), Unwrap(program))
      ]_vars

\* Bank 1, program 7 was selected, the second resource was loaded, and the
\* selection, which is not the first preset of that resource, is kept.
C39_Witness ==
    /\ Len(nodes) = 1
    /\ IsSome(nodes[1].node.synth)
    /\ nodes[1].node.preset_map = Some(PresetsOf(OtherFont))
    /\ nodes[1].node.last_bank = Some(1)
    /\ nodes[1].node.last_preset = Some(7)

\* The selection the new resource lacks has given way to its first preset.
FirstAvailableSelected ==
    /\ Len(nodes) = 1
    /\ nodes[1].node.preset_map = Some(PresetsOf(OtherFont))
    /\ nodes[1].node.last_bank = Some(1)
    /\ nodes[1].node.last_preset = Some(5)
    /\ Len(jobs) = 2
    /\ jobs[2].last_bank = Some(0)

\* After the load of the resource without presets nothing is selected.
NothingSelected ==
    /\ Len(nodes) = 1
    /\ IsSome(nodes[1].node.synth)
    /\ nodes[1].node.preset_map = Some({})
    /\ nodes[1].node.last_bank = None
    /\ Len(jobs) = 1
    /\ jobs[1].last_bank = Some(3)

\* ------------------------------------------------------------------------
\* The disabled scheduler (checked under SpecDrum)
\* ------------------------------------------------------------------------
\* The scheduler is disabled and the one request waiting enables it.
EnabledFromDisabled ==
    /\ ~dm.enabled
    /\ dm_req_rx = <<[kind |-> "SetEnabled", arg |-> TRUE]>>

\* A tick that finds the scheduler disabled once the waiting requests are
\* handled fires no beat-tick, sends no hit and leaves the scheduler as the
\* requests left it.
DisabledTickIsSilent ==
    [][(tick /\ ~AfterRequests.panicked /\ ~AfterRequests.enabled) =>
         /\ fired' = None
         /\ sent' = <<>>
         /\ dm' = AfterRequests
         /\ dm_req_rx /= <<>> => Len(results') = Len(dm_req_rx)
         /\ dm_req_rx = <<>> =>
               /\ dm'.current_beat = dm.current_beat
               /\ dm'.current_div = dm.current_div
               /\ dm'.last_time = dm.last_time
      ]_vars

\* Time has passed since the disabled scheduler last fired, and a tick has
\* handled a request and fired nothing.
DisabledTickIsSilent_Witness ==
    /\ ~dm.enabled
    /\ ~dm.panicked
    /\ now = MaxTime
    /\ results = <<"Update">>
    /\ fired = None
    /\ dm.rhythm = Rhythm(2, 2)

\* Enabling the disabled scheduler rewinds it as Reset does: to the last
\* position of the rhythm, one period before now.
EnablingResets ==
    [][(tick /\ EnabledFromDisabled /\ num_slots(dm.rhythm) > 0) =>
         LET d == AfterRequests
         IN  /\ d.enabled
             /\ d.current_beat = dm.rhythm.num_beats - 1
             /\ d.current_div = dm.rhythm.num_divs - 1
             /\ d.last_time = FSub(timestamp(now), period(dm))
             /\ IsSome(fired')
      ]_vars

\* C40: a disabled scheduler's tick fires nothing and leaves position and
\* last_time to the requests; enabling it from the disabled state resets it,
\* so the beat-tick fired next is the one of position (0, 0).
C40_DisabledThenRestart ==
    [][tick =>
         /\ (~AfterRequests.panicked /\ ~AfterRequests.enabled) =>
               (fired' = None /\ sent' = <<>> /\ dm' = AfterRequests)
         /\ EnabledFromDisabled =>
               /\ ~dm'.panicked
               /\ IsSome(fired') => (Unwrap(fired').beat = 0 /\ Unwrap(fired').div = 0)
      ]_vars

\* The scheduler was enabled from the disabled state and has fired the last
\* position of its rhythm.
RestartsAtLastPosition ==
    /\ dm.enabled
    /\ results = <<"Update">>
    /\ IsSome(fired)
    /\ Unwrap(fired).rhythm = Rhythm(2, 2)
    /\ Unwrap(fired).beat = 1
    /\ Unwrap(fired).div = 1
====
